---- MODULE Spec2Model ----
(***************************************************************************)
(* State-machine model of the media receiver of cam-relay                  *)
(* (app/src/webrtc_receiver.py, virtual_cam.py, vbcable_player.py).        *)
(*                                                                         *)
(* Execution contexts:                                                     *)
(*   - the asyncio event loop thread, which runs the _handle_offer         *)
(*     coroutines, the on_track callbacks, the _recv_video / _recv_audio   *)
(*     pumps and the coroutines scheduled with run_coroutine_threadsafe;   *)
(*     a coroutine gives up the loop only at an await;                     *)
(*   - the signaling (websocket) thread, which calls receive_offer and     *)
(*     add_candidate;                                                      *)
(*   - the GUI/status thread, which calls stop_stream.                     *)
(* The websocket client (websocket_client.py) is modelled with the GUI     *)
(* thread's connect / disconnect calls and its connection threads.         *)
(* A step of one thread is one access to the receiver's shared fields, so  *)
(* that the other threads interleave between any two accesses.             *)
(***************************************************************************)
EXTENDS Integers, Sequences, FiniteSets, TLC

\* ----------------------------------------------------------------- bounds
MaxOffers == 3      \* receive_offer calls (one peer connection each) under SpecRenegotiate
IceOffers == 1      \* receive_offer calls under SpecIce
IceCands  == 2      \* add_candidate calls under SpecIce
AnswerOffers == 2   \* receive_offer calls under SpecAnswer
VideoOffers == 2    \* receive_offer calls under SpecVideo
StreamOffers == 1   \* receive_offer calls under SpecStream
MaxMalformed == 1   \* add_candidate calls with a malformed candidate
MaxBytes == 3       \* bytes written to the player under SpecPlayer
MaxCallbacks == 2   \* device callbacks under SpecPlayer
MaxRequest == 2     \* bytes a device callback asks for
MaxBuffered == 1    \* audio frames the pump leaves in the player's buffer
MaxPreviews == 1    \* preview threads started under SpecPreview
MaxTracks == 2      \* audio tracks under SpecAudio
MaxFloat == 3       \* floating-point samples range over -MaxFloat/2 .. MaxFloat/2
MaxWidth == 12      \* widths of the video frames under SpecResize
MaxHeight == 12     \* heights of the video frames under SpecResize
QueueFrames == 5    \* frames the pump receives under SpecQueue
CamFrames == 3      \* frames the pumps receive under SpecCamera
CamWidths == 2      \* widths of the normalized frames under SpecCamera
CamStops == 1       \* stop_stream calls under SpecQueue and SpecCamera
CamCleanups == 1    \* pump cleanups under SpecCamera
MaxPacers == 3      \* pacer threads the camera starts
CloseOffers == 2    \* offers (one connection each) under SpecClose
ClosePumps == 1     \* tracks attached (one pump each) under SpecClose
CallbackOffers == 1 \* receive_offer calls under SpecCallbacks
CallbackCands == 2  \* add_candidate calls under SpecCallbacks
MaxConnects == 2    \* WebSocketClient.connect calls under SpecSocket
MaxDisconnects == 1 \* WebSocketClient.disconnect calls under SpecSocket

Sessions == 1..MaxOffers
NoPc     == 0       \* self._pc is None
Previews == 1..MaxPreviews
AudioTracks == 1..MaxTracks
Pacers == 1..MaxPacers
LConns == 1..CloseOffers
LPumps == 1..ClosePumps
Connects == 1..MaxConnects
Callers == {"loop", "ws"}   \* the event-loop thread, the websocket thread
QueueSize == 4      \* queue.Queue(maxsize=4)

VARIABLES
    \* ---- WebRTCReceiver fields
    pc,             \* self._pc: NoPc or the session held
    pending,        \* self._pending_candidates
    has_stream,     \* self.has_stream
    cam_started,    \* self._virtual_cam_started
    latest_frame,   \* self.latest_frame: 0 = None, else the session of the frame
    \* ---- output components
    cam_running,    \* VirtualCamera: pacer thread alive, device bound
    cam_owner,      \* the session whose pump bound the camera (0: unbound)
    vbc_running,    \* VBCablePlayer._running
    vbc_owner,      \* the session whose pump bound the audio device
    \* ---- RTCPeerConnection objects, one per offer
    pcst,           \* "none" (not constructed) / "open" / "closed"
    rd,             \* setRemoteDescription has completed
    ld,             \* type of pc.localDescription ("none" before setLocalDescription)
    \* ---- _handle_offer coroutines, one per offer
    hpc,            \* position of each coroutine
    hold,           \* the connection whose close() it awaits
    hidx,           \* iterator index of the drain loop
    hraised,        \* an addIceCandidate of the drain loop has raised
    answers,        \* send_answer_callback payload types, per offer
    \* ---- run_coroutine_threadsafe: FIFO of coroutines handed to the loop
    ready,
    \* ---- add_candidate on the signaling thread
    acpc, accand, ncand,
    nmal,           \* add_candidate calls made with a malformed candidate
    \* ---- tracks and pumps, per session
    vpc,            \* video: on_track, _recv_video and its cleanup
    apc,            \* audio: on_track, _recv_audio and its cleanup
    vgot,           \* the video pump has received a frame
    agot,           \* the audio pump has received a frame
    afail,          \* VBCablePlayer.start() raised in the audio pump (L207)
    \* ---- stop_stream on the GUI/status thread
    sspc, sshold,
    sswasactive,    \* has_stream when the current/last stop_stream call was entered
    ssmark,         \* length of notif at that moment
    ssact,          \* nact at that moment
    ssclean,        \* it was entered in the stopped state, nothing running, and no
                    \* offer has been received since
    sscam,          \* stop_stream has stopped the camera and no offer has been
                    \* received since
    \* ---- observation logs
    applied,        \* pc.addIceCandidate calls started, in order
    notif,          \* on_stream_start / on_stream_stop calls, in order
    nact,           \* INACTIVE -> ACTIVE transitions of has_stream
    \* ---- VBCablePlayer
    vbuf,           \* self._buf: the bytes buffered, oldest first
    underflow,      \* self._underflow_count
    vout,           \* outdata of the last device callback (0: a zero byte)
    vreq,           \* the bytes the last device callback asked for
    nwr,            \* bytes written through write() under SpecPlayer
    ncb,            \* device callbacks made
    pstart,         \* nwr when the player was last started
    played,         \* buffered bytes delivered since the player was last started
    \* ---- the frame lock and the preview threads
    frame_lock,     \* self._frame_lock: 0 free, else the preview thread holding it
    pv_running,     \* self._preview_running
    pv_thread,      \* self._preview_thread: 0 = None, else the thread
    npv,            \* preview threads created so far
    pvpc,           \* position of each preview thread
    pvframe,        \* the frame each preview thread obtained last (0: nothing)
    \* ---- _recv_audio's frame processing
    alpc,           \* position of the pump of each audio track
    arr,            \* the frame received last: its sample type and samples
    interleaved,    \* the int16 samples it was converted to
    audio_level,    \* self.audio_level
    alsrc,          \* what assigned audio_level last
    \* ---- _recv_video's normalization
    img,            \* width and height of the frame received last
    resized,        \* width and height it was resized to
    \* ---- VirtualCamera
    vc,             \* the object: _thread (0: None), _running, _q, _width
    pacers,         \* each thread running _run: position, bound width, frame in hand
    callers,        \* each thread calling into the camera: position, thread joined
    cnt,            \* frames received, stop_stream calls, cleanups, threads started
    obs,            \* current frame; frames accepted, queued, returned on a running
                    \* camera, drained by stop; frames taken by _run, in order;
                    \* emissions as <<width, bound width>>
    \* ---- the pumps' lifetime
    lcur,           \* self._pc (0: None)
    lconn,          \* each connection: "none", "open", "closed"
    lpump,          \* each pump: kind, connection, position, whether a frame was
                    \* received, what ended it, runs of the cleanup, stops of the
                    \* player
    loffer,         \* the _handle_offer coroutine: position, connection it closes,
                    \* connection it creates, offers received
    lstop,          \* the thread in stop_stream: position, connection it closes
    lready,         \* close() coroutines handed to the loop by stop_stream
    \* ---- the callbacks supplied by the application
    craised,        \* calls that raised: on_stream_start (by session),
                    \* on_stream_stop (by pump), send_answer_callback (by offer),
                    \* and ncand when send_answer_callback raised
    \* ---- WebSocketClient
    wsc             \* gui: position of the GUI thread in connect / disconnect;
                    \* call: connect calls made; thread: self._thread (0: None);
                    \* th: state of the thread each connect call started;
                    \* ndis: disconnect calls made; log: the statuses reported to
                    \* on_status, in order, each with the connect call it belongs
                    \* to (0: none) and whether the socket was open at the time

recv  == <<pc, pending, has_stream, cam_started, latest_frame>>
outs  == <<cam_running, cam_owner, vbc_running, vbc_owner>>
conns == <<pcst, rd, ld>>
hvars == <<hpc, hold, hidx, hraised, answers>>
cvars == <<acpc, accand, ncand, nmal>>
pumps == <<vpc, apc, vgot, agot, afail>>
svars == <<sspc, sshold, sswasactive, ssmark, ssact, ssclean, sscam>>
logs  == <<applied, notif, nact>>
player == <<vbuf, underflow, vout, vreq, nwr, ncb, pstart, played>>
preview == <<frame_lock, pv_running, pv_thread, npv, pvpc, pvframe>>
audio == <<alpc, arr, interleaved, audio_level, alsrc>>
norm  == <<img, resized>>
vcam  == <<vc, pacers, callers, cnt, obs>>
life  == <<lcur, lconn, lpump, loffer, lstop, lready>>
aux   == <<preview, audio, norm, vcam, life, craised, wsc>>
nopreview == <<audio, norm, vcam, life, craised, wsc>>
noaudio == <<preview, norm, vcam, life, craised, wsc>>
nonorm == <<preview, audio, vcam, life, craised, wsc>>
novcam == <<preview, audio, norm, life, craised, wsc>>
nolife == <<preview, audio, norm, vcam, craised, wsc>>
noraised == <<preview, audio, norm, vcam, life, wsc>>
nowsc == <<preview, audio, norm, vcam, life, craised>>
core  == <<recv, outs, conns, hvars, ready, cvars, pumps, svars, logs, player>>
vars  == <<recv, outs, conns, hvars, ready, cvars, pumps, svars, logs, player, aux>>

\* self.audio_level is 1.0 (clamped), or 4.2 * sqrt(sumsq / n) / 32768.
LevelZero == [clamped |-> FALSE, sumsq |-> 0, n |-> 1]
LevelOne  == [clamped |-> TRUE, sumsq |-> 0, n |-> 1]

\* WebRTCReceiver.__init__
Init ==
    /\ pc = NoPc
    /\ pending = <<>>
    /\ has_stream = FALSE
    /\ cam_started = FALSE
    /\ latest_frame = 0
    /\ cam_running = FALSE
    /\ cam_owner = 0
    /\ vbc_running = FALSE
    /\ vbc_owner = 0
    /\ pcst = [s \in Sessions |-> "none"]
    /\ rd = [s \in Sessions |-> FALSE]
    /\ ld = [s \in Sessions |-> "none"]
    /\ hpc = [s \in Sessions |-> "idle"]
    /\ hold = [s \in Sessions |-> NoPc]
    /\ hidx = [s \in Sessions |-> 0]
    /\ hraised = [s \in Sessions |-> FALSE]
    /\ answers = [s \in Sessions |-> <<>>]
    /\ ready = <<>>
    /\ acpc = "idle"
    /\ accand = 0
    /\ ncand = 0
    /\ nmal = 0
    /\ vbuf = <<>>
    /\ underflow = 0
    /\ vout = <<>>
    /\ vreq = 0
    /\ nwr = 0
    /\ ncb = 0
    /\ pstart = 0
    /\ played = <<>>
    /\ vpc = [s \in Sessions |-> "none"]
    /\ apc = [s \in Sessions |-> "none"]
    /\ vgot = [s \in Sessions |-> FALSE]
    /\ agot = [s \in Sessions |-> FALSE]
    /\ afail = [s \in Sessions |-> FALSE]
    /\ sspc = "idle"
    /\ sshold = NoPc
    /\ sswasactive = FALSE
    /\ ssmark = 0
    /\ ssact = 0
    /\ ssclean = FALSE
    /\ sscam = FALSE
    /\ applied = <<>>
    /\ notif = <<>>
    /\ nact = 0
    /\ frame_lock = 0
    /\ pv_running = FALSE
    /\ pv_thread = 0
    /\ npv = 0
    /\ pvpc = [t \in Previews |-> "none"]
    /\ pvframe = [t \in Previews |-> 0]
    /\ alpc = [p \in AudioTracks |-> "none"]
    /\ arr = [kind |-> "int16", data |-> <<>>]
    /\ interleaved = <<>>
    /\ audio_level = LevelZero
    /\ alsrc = "init"
    /\ img = <<0, 0>>
    /\ resized = <<0, 0>>
    /\ vc = [thread |-> 0, running |-> FALSE, q |-> <<>>, width |-> 0]
    /\ pacers = [t \in Pacers |-> [at |-> "none", bound |-> 0, frame |-> 0]]
    /\ callers = [c \in Callers |-> [at |-> "idle", join |-> 0]]
    /\ cnt = [frames |-> 0, stops |-> 0, cleanups |-> 0, pacers |-> 0]
    /\ obs = [cur |-> [id |-> 0, w |-> 0], accepted |-> {}, queued |-> {},
              returned |-> {}, drained |-> {}, taken |-> <<>>, emitted |-> {}]
    /\ lcur = 0
    /\ lconn = [c \in LConns |-> "none"]
    /\ lpump = [p \in LPumps |-> [kind |-> "none", conn |-> 0, at |-> "none",
                                   got |-> FALSE, ended |-> "no", cleanups |-> 0, stops |-> 0]]
    /\ loffer = [at |-> "idle", hold |-> 0, new |-> 0, n |-> 0]
    /\ lstop = [at |-> "idle", hold |-> 0]
    /\ lready = <<>>
    /\ craised = [start |-> {}, stop |-> {}, answer |-> {}, mark |-> 0]
    /\ wsc = [gui |-> "idle", call |-> 0, thread |-> 0, ndis |-> 0,
              th |-> [t \in Connects |-> "none"], log |-> <<>>]

\* ------------------------------------------------------- the event loop
\* Positions at which a coroutine or callback is in the middle of a
\* synchronous stretch: it holds the loop thread, no other loop task runs.
HMid  == {"L96", "L100", "L119", "drain", "L150"}
OTMid == {"ot_set", "ot_notify"}
VMid  == {"camchk", "camstart", "camflag"}
AMid  == {"write", "vbcstop"}
CLMid == {"cl_test", "cl_clear", "cl_notify", "cl_camchk", "cl_join", "cl_camstop",
          "cl_camflag"}

LoopBusy ==
    \/ \E s \in Sessions : hpc[s] \in HMid
    \/ \E s \in Sessions : vpc[s] \in OTMid \cup VMid \cup CLMid
    \/ \E s \in Sessions : apc[s] \in AMid \cup CLMid

Task(kind, p, c) == [k |-> kind, p |-> p, c |-> c]

\* --------------------------------------------------------- receive_offer
\* Signaling thread: hands _handle_offer(offer, callback) to the loop.
receive_offer(h) ==
    /\ hpc[h] = "idle"
    /\ IF h = 1 THEN TRUE ELSE hpc[h - 1] # "idle"
    /\ acpc = "idle"
    /\ hpc' = [hpc EXCEPT ![h] = "queued"]
    /\ ready' = Append(ready, Task("offer", h, 0))
    /\ ssclean' = FALSE
    /\ sscam' = FALSE
    /\ UNCHANGED <<recv, outs, conns, hold, hidx, hraised, answers, cvars, pumps, sspc,
                   sshold, sswasactive, ssmark, ssact, applied, notif, nact, player, aux>>

\* -------------------------------------------------------- _handle_offer
\* L94: the coroutine starts on the loop and tests self._pc.  With no
\* session it goes on to construct the RTCPeerConnection (L102).
handle_offer_begin(h) ==
    /\ ~LoopBusy
    /\ ready # <<>> /\ Head(ready) = Task("offer", h, 0)
    /\ ready' = Tail(ready)
    /\ IF pc # NoPc
         THEN /\ hpc' = [hpc EXCEPT ![h] = "L96"]
              /\ pcst' = pcst
         ELSE /\ hpc' = [hpc EXCEPT ![h] = "L119"]
              /\ pcst' = [pcst EXCEPT ![h] = "open"]
    /\ UNCHANGED <<recv, outs, rd, ld, hold, hidx, hraised, answers, cvars, pumps, svars,
                   applied, notif, nact, player, aux>>

\* L96: evaluates self._pc.close() (a second read of self._pc) and awaits
\* it; if another thread has cleared self._pc meanwhile the attribute
\* access raises and the except clause (L97) swallows it.
handle_offer_close(h) ==
    /\ hpc[h] = "L96"
    /\ IF pc # NoPc
         THEN /\ hold' = [hold EXCEPT ![h] = pc]
              /\ hpc' = [hpc EXCEPT ![h] = "closing"]
         ELSE /\ hold' = hold
              /\ hpc' = [hpc EXCEPT ![h] = "L100"]
    /\ UNCHANGED <<recv, outs, conns, hidx, hraised, answers, ready, cvars, pumps, svars,
                   applied, notif, nact, player, aux>>

\* L96: the awaited close() completes: the old connection is closed.
handle_offer_closed(h) ==
    /\ hpc[h] = "closing"
    /\ ~LoopBusy
    /\ pcst' = [pcst EXCEPT ![hold[h]] = "closed"]
    /\ hpc' = [hpc EXCEPT ![h] = "L100"]
    /\ UNCHANGED <<recv, outs, rd, ld, hold, hidx, hraised, answers, ready, cvars, pumps,
                   svars, applied, notif, nact, player, aux>>

\* L100-L117: self._pc = None; pc = RTCPeerConnection(...)
handle_offer_clear(h) ==
    /\ hpc[h] = "L100"
    /\ pc' = NoPc
    /\ pcst' = [pcst EXCEPT ![h] = "open"]
    /\ hpc' = [hpc EXCEPT ![h] = "L119"]
    /\ UNCHANGED <<pending, has_stream, cam_started, latest_frame, outs, rd, ld,
                   hold, hidx, hraised, answers, ready, cvars, pumps, svars, applied, notif, nact,
                   player, aux>>

\* L119-L143: self._pc = pc; on_track is registered; setRemoteDescription
\* is started and awaited.
handle_offer_assign(h) ==
    /\ hpc[h] = "L119"
    /\ pc' = h
    /\ hpc' = [hpc EXCEPT ![h] = "setrd"]
    /\ UNCHANGED <<pending, has_stream, cam_started, latest_frame, outs, conns,
                   hold, hidx, hraised, answers, ready, cvars, pumps, svars, applied, notif, nact,
                   player, aux>>

\* L143: setRemoteDescription completes.
handle_offer_remote_set(h) ==
    /\ hpc[h] = "setrd"
    /\ ~LoopBusy
    /\ rd' = [rd EXCEPT ![h] = TRUE]
    /\ hpc' = [hpc EXCEPT ![h] = "drain"]
    /\ UNCHANGED <<recv, outs, pcst, ld, hold, hidx, hraised, answers, ready, cvars, pumps,
                   svars, applied, notif, nact, player, aux>>

\* One call of pc.addIceCandidate(cand) on connection p; q tells whether
\* the candidate comes from self._pending_candidates.
Apply(p, c, q) == Append(applied, [p |-> p, c |-> c, q |-> q, rd |-> rd[p]])

\* L145-L147: next iteration of `for cand in self._pending_candidates`:
\* the list iterator compares its index with the current length.
handle_offer_drain(h) ==
    /\ hpc[h] = "drain"
    /\ IF hidx[h] < Len(pending)
         THEN /\ applied' = Apply(h, pending[hidx[h] + 1], TRUE)
              /\ hidx' = [hidx EXCEPT ![h] = hidx[h] + 1]
              /\ hpc' = [hpc EXCEPT ![h] = "applying"]
         ELSE /\ applied' = applied
              /\ hidx' = hidx
              /\ hpc' = [hpc EXCEPT ![h] = "L150"]
    /\ UNCHANGED <<recv, outs, conns, hold, hraised, answers, ready, cvars, pumps, svars,
                   notif, nact, player, aux>>

\* The exception of an addIceCandidate of the drain loop left uncaught:
\* it reaches the handler of L161 and the coroutine ends.
handle_offer_applied_uncaught(h, ok) ==
    /\ hpc[h] = "applying"
    /\ ~LoopBusy
    /\ hraised' = [hraised EXCEPT ![h] = hraised[h] \/ ~ok]
    /\ hpc' = [hpc EXCEPT ![h] = IF ok THEN "drain" ELSE "failed"]
    /\ UNCHANGED <<recv, outs, conns, hold, hidx, answers, ready, cvars, pumps,
                   svars, applied, notif, nact, player, aux>>

\* L147-L149: the awaited addIceCandidate returns (ok) or raises; the
\* exception is swallowed by `except Exception: pass` and the loop goes on.
handle_offer_applied(h, ok) ==
    /\ hpc[h] = "applying"
    /\ ~LoopBusy
    /\ hraised' = [hraised EXCEPT ![h] = hraised[h] \/ ~ok]
    /\ hpc' = [hpc EXCEPT ![h] = "drain"]
    /\ UNCHANGED <<recv, outs, conns, hold, hidx, answers, ready, cvars, pumps,
                   svars, applied, notif, nact, player, aux>>

\* L150-L152: self._pending_candidates.clear(); createAnswer is awaited.
handle_offer_clear_pending(h) ==
    /\ hpc[h] = "L150"
    /\ pending' = <<>>
    /\ hpc' = [hpc EXCEPT ![h] = "answer"]
    /\ UNCHANGED <<pc, has_stream, cam_started, latest_frame, outs, conns, hold,
                   hidx, hraised, answers, ready, cvars, pumps, svars, applied, notif, nact,
                   player, aux>>

\* The callback called with the answer of createAnswer, before
\* setLocalDescription.
handle_offer_answer_sent_early(h) ==
    /\ hpc[h] = "answer"
    /\ ~LoopBusy
    /\ answers' = [answers EXCEPT ![h] = Append(answers[h], "answer")]
    /\ hpc' = [hpc EXCEPT ![h] = "setld"]
    /\ UNCHANGED <<recv, outs, conns, hold, hidx, hraised, ready, cvars, pumps, svars,
                   applied, notif, nact, player, aux>>

\* L152-L153: createAnswer completes; setLocalDescription is awaited.
handle_offer_answer_created(h) ==
    /\ hpc[h] = "answer"
    /\ ~LoopBusy
    /\ hpc' = [hpc EXCEPT ![h] = "setld"]
    /\ UNCHANGED <<recv, outs, conns, hold, hidx, hraised, answers, ready, cvars, pumps,
                   svars, applied, notif, nact, player, aux>>

\* L153-L159: setLocalDescription completes (the description made by
\* createAnswer has type "answer"); the payload is built from
\* pc.localDescription and send_answer_callback is called.
handle_offer_send_answer(h) ==
    /\ hpc[h] = "setld"
    /\ ~LoopBusy
    /\ ld' = [ld EXCEPT ![h] = "answer"]
    /\ answers' = [answers EXCEPT ![h] = Append(answers[h], ld'[h])]
    /\ hpc' = [hpc EXCEPT ![h] = "done"]
    /\ UNCHANGED <<recv, outs, pcst, rd, hold, hidx, hraised, ready, cvars, pumps, svars,
                   applied, notif, nact, player, aux>>

\* L161-L163: setRemoteDescription, createAnswer or setLocalDescription
\* raises; the exception is logged and the coroutine ends.
\* L152-L163: setLocalDescription completes; send_answer_callback raises
\* and the except clause logs it.
handle_offer_send_answer_raises(h) ==
    /\ hpc[h] = "setld"
    /\ ~LoopBusy
    /\ ld' = [ld EXCEPT ![h] = "answer"]
    /\ answers' = [answers EXCEPT ![h] = Append(answers[h], ld'[h])]
    /\ craised' = [craised EXCEPT !.answer = @ \cup {h}, !.mark = ncand]
    /\ hpc' = [hpc EXCEPT ![h] = "failed"]
    /\ UNCHANGED <<recv, outs, pcst, rd, hold, hidx, hraised, ready, cvars, pumps, svars,
                   applied, notif, nact, player, noraised>>

handle_offer_fail(h) ==
    /\ hpc[h] \in {"setrd", "answer", "setld"}
    /\ ~LoopBusy
    /\ hpc' = [hpc EXCEPT ![h] = "failed"]
    /\ UNCHANGED <<recv, outs, conns, hold, hidx, hraised, answers, ready, cvars, pumps,
                   svars, applied, notif, nact, player, aux>>

\* --------------------------------------------------------- add_candidate
\* The keys a candidate dict may carry; None and {} are both falsy and are
\* modelled by the empty key set.
CandidateKeys == {"candidate", "sdpMid"}

\* L309: not candidate or "candidate" not in candidate
Malformed(keys) == keys = {} \/ "candidate" \notin keys

\* add_candidate without the test of L309: the malformed candidate (logged
\* as candidate 0) is queued or handed to the loop like a valid one.
add_candidate_unchecked(keys) ==
    /\ acpc = "idle"
    /\ Malformed(keys)
    /\ nmal < MaxMalformed
    /\ nmal' = nmal + 1
    /\ IF pc = NoPc
         THEN pending' = Append(pending, 0) /\ ready' = ready
         ELSE ready' = Append(ready, Task("cand", pc, 0)) /\ pending' = pending
    /\ UNCHANGED <<pc, has_stream, cam_started, latest_frame, outs, conns, hvars,
                   acpc, accand, ncand, pumps, svars, applied, notif, nact, player, aux>>

\* L309-L310: a malformed candidate; add_candidate returns.
add_candidate_malformed(keys) ==
    /\ acpc = "idle"
    /\ Malformed(keys)
    /\ nmal < MaxMalformed
    /\ nmal' = nmal + 1
    /\ UNCHANGED <<recv, outs, conns, hvars, ready, acpc, accand, ncand, pumps,
                   svars, applied, notif, nact, player, aux>>

\* L309-L312: a valid candidate; tests self._pc.
add_candidate(c) ==
    /\ acpc = "idle"
    /\ c = ncand + 1
    /\ ncand' = c
    /\ accand' = c
    /\ acpc' = IF pc = NoPc THEN "L313" ELSE "L318"
    /\ UNCHANGED <<recv, outs, conns, hvars, ready, nmal, pumps, svars, applied,
                   notif, nact, player, aux>>

\* L313: self._pending_candidates.append(candidate)
add_candidate_append ==
    /\ acpc = "L313"
    /\ pending' = Append(pending, accand)
    /\ acpc' = "idle"
    /\ accand' = 0
    /\ UNCHANGED <<pc, has_stream, cam_started, latest_frame, outs, conns, hvars,
                   ready, ncand, nmal, pumps, svars, applied, notif, nact, player, aux>>

\* L317-L322: self._pc.addIceCandidate(candidate) is handed to the loop; a
\* self._pc cleared since the test raises, which is logged.
add_candidate_schedule ==
    /\ acpc = "L318"
    /\ ready' = IF pc # NoPc THEN Append(ready, Task("cand", pc, accand)) ELSE ready
    /\ acpc' = "idle"
    /\ accand' = 0
    /\ UNCHANGED <<recv, outs, conns, hvars, ncand, nmal, pumps, svars, applied, notif, nact,
                   player, aux>>

\* The loop starts a scheduled pc.addIceCandidate(candidate).
run_add_candidate ==
    /\ ~LoopBusy
    /\ ready # <<>> /\ Head(ready).k = "cand"
    /\ applied' = Apply(Head(ready).p, Head(ready).c, FALSE)
    /\ ready' = Tail(ready)
    /\ UNCHANGED <<recv, outs, conns, hvars, cvars, pumps, svars, notif, nact, player, aux>>

\* ----------------------------------------------------------- stop_stream
\* VirtualCamera.stop(): the pacer thread is told to stop and joined.
camera_stop ==
    /\ cam_running' = FALSE
    /\ cam_owner' = 0

\* ---------------------------------------------------------- VBCablePlayer
\* VBCablePlayer.stop(), L92-L112: a no-op unless running; else the device
\* stream is stopped and closed, the buffer cleared and _running reset.
vbc_stop ==
    /\ vbc_running' = FALSE
    /\ vbc_owner' = 0
    /\ vbuf' = IF vbc_running THEN <<>> ELSE vbuf
    /\ UNCHANGED <<underflow, vout, vreq, nwr, ncb, pstart, played>>

\* VBCablePlayer.start(), L43-L81: a no-op when running; else the underflow
\* count is reset and the device stream opened and started (ok) or a
\* RuntimeError raised (~ok).
vbc_start(ok) ==
    /\ IF vbc_running
         THEN UNCHANGED <<vbc_running, underflow, pstart, played>>
         ELSE /\ underflow' = 0
              /\ vbc_running' = ok
              /\ pstart' = IF ok THEN nwr ELSE pstart
              /\ played' = IF ok THEN <<>> ELSE played
    /\ UNCHANGED <<vbuf, vout, vreq, ncb>>

\* VBCablePlayer.write(pcm_bytes), L83-L90: empty data is ignored, else the
\* bytes are appended to the buffer under the lock.
vbc_write(data) ==
    /\ vbuf' = IF data = <<>> THEN vbuf ELSE vbuf \o data
    /\ UNCHANGED <<underflow, vout, vreq, ncb, pstart, played>>

Zeros(n) == [i \in 1..n |-> 0]

\* The stream callback without `del self._buf[:requested_bytes]`.
vbc_callback_keeps(n) ==
    /\ IF Len(vbuf) >= n
         THEN /\ vout' = SubSeq(vbuf, 1, n)
              /\ vbuf' = vbuf
              /\ played' = played \o SubSeq(vbuf, 1, n)
              /\ underflow' = underflow
         ELSE /\ vout' = vbuf \o Zeros(n - Len(vbuf))
              /\ vbuf' = <<>>
              /\ played' = played \o vbuf
              /\ underflow' = underflow + 1
    /\ vreq' = n
    /\ ncb' = ncb + 1
    /\ UNCHANGED <<nwr, pstart>>

\* The stream callback comparing with > instead of >=.
vbc_callback_strict(n) ==
    /\ IF Len(vbuf) > n
         THEN /\ vout' = SubSeq(vbuf, 1, n)
              /\ vbuf' = SubSeq(vbuf, n + 1, Len(vbuf))
              /\ played' = played \o SubSeq(vbuf, 1, n)
              /\ underflow' = underflow
         ELSE /\ vout' = vbuf \o Zeros(n - Len(vbuf))
              /\ vbuf' = <<>>
              /\ played' = played \o vbuf
              /\ underflow' = underflow + 1
    /\ vreq' = n
    /\ ncb' = ncb + 1
    /\ UNCHANGED <<nwr, pstart>>

\* The stream callback, L49-L65, asked for n bytes (requested_bytes).
\* Under the lock: with at least n bytes buffered the first n are copied
\* out and deleted (L55-L56); else the `have` buffered bytes, if any, are
\* copied out and deleted (L59-L62), the rest of outdata is zeroed (L64) and
\* the underflow count incremented (L65).
vbc_callback(n) ==
    /\ IF Len(vbuf) >= n
         THEN /\ vout' = SubSeq(vbuf, 1, n)
              /\ vbuf' = SubSeq(vbuf, n + 1, Len(vbuf))
              /\ played' = played \o SubSeq(vbuf, 1, n)
              /\ underflow' = underflow
         ELSE LET have == Len(vbuf) IN
              /\ vout' = (IF have > 0 THEN vbuf ELSE <<>>) \o Zeros(n - have)
              /\ vbuf' = IF have > 0 THEN SubSeq(vbuf, have + 1, Len(vbuf)) ELSE vbuf
              /\ played' = played \o vbuf
              /\ underflow' = underflow + 1
    /\ vreq' = n
    /\ ncb' = ncb + 1
    /\ UNCHANGED <<nwr, pstart>>

\* The bytes nwr+1 .. nwr+n, each byte written once.
Bytes(n) == [i \in 1..n |-> nwr + i]

Others == <<recv, cam_running, cam_owner, vbc_owner, conns, hvars, ready, cvars,
            pumps, svars, logs, aux>>

\* The player driven directly: start, write, the device's callback, stop.
player_start(ok) ==
    /\ vbc_start(ok)
    /\ UNCHANGED <<nwr, Others>>

player_write(n) ==
    /\ nwr + n <= MaxBytes
    /\ vbc_write(Bytes(n))
    /\ nwr' = nwr + n
    /\ UNCHANGED <<vbc_running, Others>>

player_callback(n) ==
    /\ vbc_running
    /\ ncb < MaxCallbacks
    /\ vbc_callback(n)
    /\ UNCHANGED <<vbc_running, Others>>

player_stop ==
    /\ vbc_stop
    /\ UNCHANGED <<recv, cam_running, cam_owner, conns, hvars, ready, cvars,
                   pumps, svars, logs, aux>>

\* ------------------------------------------------------------ the preview
\* self._preview_thread and self._preview_thread.is_alive()
PreviewAlive == pv_thread # 0 /\ pvpc[pv_thread] \notin {"off", "dead"}

\* MainWindow._on_stream_preview_click, L134-L146, on the GUI thread with a
\* stream and no preview running; start_preview, L324-L332, starts a thread
\* unless one is alive.
preview_click ==
    /\ has_stream
    /\ ~pv_running
    /\ ~PreviewAlive
    /\ npv < MaxPreviews
    /\ pv_running' = TRUE
    /\ npv' = npv + 1
    /\ pv_thread' = npv + 1
    /\ pvpc' = [pvpc EXCEPT ![npv + 1] = "loop"]
    /\ UNCHANGED <<core, nopreview, frame_lock, pvframe>>

\* L350, L376-L380: while self._preview_running.is_set()
preview_loop_test(t) ==
    /\ pvpc[t] = "loop"
    /\ pvpc' = [pvpc EXCEPT ![t] = IF pv_running THEN "lock" ELSE "off"]
    /\ UNCHANGED <<core, nopreview, frame_lock, pv_running, pv_thread, npv, pvframe>>

\* L352-L359, L372-L374: the window was closed or 'q' pressed.
preview_window_closed(t) ==
    /\ pvpc[t] = "lock"
    /\ pv_running' = FALSE
    /\ pvpc' = [pvpc EXCEPT ![t] = "off"]
    /\ UNCHANGED <<core, nopreview, frame_lock, pv_thread, npv, pvframe>>

\* L361: with self._frame_lock
preview_acquire(t) ==
    /\ pvpc[t] = "lock"
    /\ frame_lock = 0
    /\ frame_lock' = t
    /\ pvpc' = [pvpc EXCEPT ![t] = "test"]
    /\ UNCHANGED <<core, nopreview, pv_running, pv_thread, npv, pvframe>>

\* L362: self.latest_frame is None: the thread obtains nothing and leaves
\* the lock; else it goes on to the copy.
preview_test(t) ==
    /\ pvpc[t] = "test"
    /\ IF latest_frame = 0
         THEN /\ pvframe' = [pvframe EXCEPT ![t] = 0]
              /\ frame_lock' = 0
              /\ pvpc' = [pvpc EXCEPT ![t] = "show"]
         ELSE /\ pvpc' = [pvpc EXCEPT ![t] = "copy"]
              /\ UNCHANGED <<frame_lock, pvframe>>
    /\ UNCHANGED <<core, nopreview, pv_running, pv_thread, npv>>

\* L362: self.latest_frame.copy(), a second read of the field: on None the
\* AttributeError leaves the with block and ends the thread.
preview_copy(t) ==
    /\ pvpc[t] = "copy"
    /\ frame_lock' = 0
    /\ IF latest_frame = 0
         THEN /\ pvpc' = [pvpc EXCEPT ![t] = "dead"]
              /\ UNCHANGED pvframe
         ELSE /\ pvframe' = [pvframe EXCEPT ![t] = latest_frame]
              /\ pvpc' = [pvpc EXCEPT ![t] = "show"]
    /\ UNCHANGED <<core, nopreview, pv_running, pv_thread, npv>>

\* L364-L370: the frame, or the "No frame" image, is shown.
preview_show(t) ==
    /\ pvpc[t] = "show"
    /\ pvpc' = [pvpc EXCEPT ![t] = "loop"]
    /\ UNCHANGED <<core, nopreview, frame_lock, pv_running, pv_thread, npv, pvframe>>

\* on_stream_start() / on_stream_stop() as seen by the application.
Notify(ev, by, s) ==
    Append(notif, [ev |-> ev, by |-> by, s |-> s,
                   frame |-> s \in Sessions /\ vgot[s],
                   vlive |-> s \in Sessions /\ vpc[s] = "recv" /\ pcst[s] = "open"])

\* The state stop_stream leaves behind: no session, camera not started,
\* player not running, no latest frame, stream inactive.
Stopped ==
    /\ pc = NoPc
    /\ ~cam_started /\ ~cam_running
    /\ ~vbc_running
    /\ latest_frame = 0
    /\ ~has_stream

\* Nothing is running or scheduled on the loop or the signaling thread.
Quiescent ==
    /\ ready = <<>>
    /\ acpc = "idle"
    /\ \A s \in Sessions : /\ hpc[s] \in {"idle", "done", "failed"}
                           /\ vpc[s] \in {"none", "done"}
                           /\ apc[s] \in {"none", "done"}

\* L391-L392, L334-L345: stop_stream is entered and calls stop_preview: a live
\* preview thread is told to stop and joined, else the handle is dropped.
stop_stream ==
    /\ sspc = "idle"
    /\ sswasactive' = has_stream
    /\ ssmark' = Len(notif)
    /\ ssact' = nact
    /\ ssclean' = (Stopped /\ Quiescent)
    /\ sscam' = sscam
    /\ IF PreviewAlive
         THEN pv_running' = FALSE /\ pv_thread' = pv_thread /\ sspc' = "L337"
         ELSE pv_running' = pv_running /\ pv_thread' = 0 /\ sspc' = "L384"
    /\ UNCHANGED <<recv, outs, conns, hvars, ready, cvars, pumps, sshold,
                   applied, notif, nact, player, frame_lock, npv, pvpc, pvframe, nopreview>>

\* L337-L345: join returns because the preview thread has exited.
stop_stream_preview_joined ==
    /\ sspc = "L337"
    /\ ~PreviewAlive
    /\ pv_thread' = 0
    /\ sspc' = "L384"
    /\ UNCHANGED <<recv, outs, conns, hvars, ready, cvars, pumps, sshold,
                   sswasactive, ssmark, ssact, ssclean, sscam, logs, player,
                   frame_lock, pv_running, npv, pvpc, pvframe, nopreview>>

\* L337-L345: join(timeout=1) returns while the preview thread is alive.
stop_stream_preview_timeout ==
    /\ sspc = "L337"
    /\ PreviewAlive
    /\ pv_thread' = 0
    /\ sspc' = "L384"
    /\ UNCHANGED <<recv, outs, conns, hvars, ready, cvars, pumps, sshold,
                   sswasactive, ssmark, ssact, ssclean, sscam, logs, player,
                   frame_lock, pv_running, npv, pvpc, pvframe, nopreview>>

\* L384: stop_virtual_camera tests self._virtual_cam_started
stop_stream_cam_test ==
    /\ sspc = "L384"
    /\ sspc' = IF cam_started THEN "L385" ELSE "L389"
    /\ UNCHANGED <<recv, outs, conns, hvars, ready, cvars, pumps, sshold,
                   sswasactive, ssmark, ssact, ssclean, sscam, applied, notif, nact, player, aux>>

\* L385: self._virtual_cam.stop()
stop_stream_cam_stop ==
    /\ sspc = "L385"
    /\ camera_stop
    /\ sscam' = TRUE
    /\ sspc' = "L389"
    /\ UNCHANGED <<recv, vbc_running, vbc_owner, conns, hvars, ready, cvars, pumps,
                   sshold, sswasactive, ssmark, ssact, ssclean, applied, notif, nact, player, aux>>

\* L389: self._virtual_cam_started = False
stop_stream_cam_flag ==
    /\ sspc = "L389"
    /\ cam_started' = FALSE
    /\ sspc' = "L395"
    /\ UNCHANGED <<pc, pending, has_stream, latest_frame, outs, conns, hvars,
                   ready, cvars, pumps, sshold, sswasactive, ssmark, ssact, ssclean, sscam, applied, notif, nact,
                   player, aux>>

\* L395: if self._pc
stop_stream_pc_test ==
    /\ sspc = "L395"
    /\ sspc' = IF pc # NoPc THEN "L397" ELSE "L404"
    /\ UNCHANGED <<recv, outs, conns, hvars, ready, cvars, pumps, sshold,
                   sswasactive, ssmark, ssact, ssclean, sscam, applied, notif, nact, player, aux>>

\* L397: self._pc.close() is handed to the loop (a second read of
\* self._pc; None raises into the except clause).
stop_stream_pc_close ==
    /\ sspc = "L397"
    /\ IF pc # NoPc
         THEN /\ sshold' = pc
              /\ ready' = Append(ready, Task("close", pc, 0))
              /\ sspc' = "wait"
         ELSE /\ sshold' = sshold
              /\ ready' = ready
              /\ sspc' = "L401"
    /\ UNCHANGED <<recv, outs, conns, hvars, cvars, pumps, sswasactive, ssmark, ssact, ssclean, sscam,
                   applied, notif, nact, player, aux>>

\* The loop runs the close() coroutine scheduled by stop_stream.
run_close ==
    /\ ~LoopBusy
    /\ ready # <<>> /\ Head(ready).k = "close"
    /\ pcst' = [pcst EXCEPT ![Head(ready).p] = "closed"]
    /\ ready' = Tail(ready)
    /\ UNCHANGED <<recv, outs, rd, ld, hvars, cvars, pumps, svars, applied, notif, nact, player, aux>>

CloseScheduled(p) == \E i \in 1..Len(ready) : ready[i] = Task("close", p, 0)

\* L397: .result(timeout=2) returns once the close has run ...
stop_stream_pc_closed ==
    /\ sspc = "wait"
    /\ ~CloseScheduled(sshold)
    /\ sspc' = "L401"
    /\ UNCHANGED <<recv, outs, conns, hvars, ready, cvars, pumps, sshold,
                   sswasactive, ssmark, ssact, ssclean, sscam, applied, notif, nact, player, aux>>

\* ... or raises TimeoutError after 2 s, which is logged (L398-L400).
stop_stream_pc_timeout ==
    /\ sspc = "wait"
    /\ CloseScheduled(sshold)
    /\ sspc' = "L401"
    /\ UNCHANGED <<recv, outs, conns, hvars, ready, cvars, pumps, sshold,
                   sswasactive, ssmark, ssact, ssclean, sscam, applied, notif, nact, player, aux>>

\* L401: self._pc = None
stop_stream_pc_clear ==
    /\ sspc = "L401"
    /\ pc' = NoPc
    /\ sspc' = "L404"
    /\ UNCHANGED <<pending, has_stream, cam_started, latest_frame, outs, conns,
                   hvars, ready, cvars, pumps, sshold, sswasactive, ssmark, ssact, ssclean, sscam,
                   applied, notif, nact, player, aux>>

\* L404-L409: self._vbc_player.stop()
stop_stream_vbc ==
    /\ sspc = "L404"
    /\ vbc_stop
    /\ sspc' = "L411"
    /\ UNCHANGED <<recv, cam_running, cam_owner, conns, hvars, ready, cvars, pumps,
                   sshold, sswasactive, ssmark, ssact, ssclean, sscam, applied, notif, nact, aux>>

\* L411: self.latest_frame = None
stop_stream_frame ==
    /\ sspc = "L411"
    /\ latest_frame' = 0
    /\ sspc' = "L413"
    /\ UNCHANGED <<pc, pending, has_stream, cam_started, outs, conns, hvars,
                   ready, cvars, pumps, sshold, sswasactive, ssmark, ssact, ssclean, sscam, applied, notif, nact,
                   player, aux>>

\* L413: if self.has_stream
stop_stream_test ==
    /\ sspc = "L413"
    /\ sspc' = IF has_stream THEN "L414" ELSE "idle"
    /\ UNCHANGED <<recv, outs, conns, hvars, ready, cvars, pumps, sshold,
                   sswasactive, ssmark, ssact, ssclean, sscam, applied, notif, nact, player, aux>>

\* L414: self.has_stream = False
stop_stream_clear ==
    /\ sspc = "L414"
    /\ has_stream' = FALSE
    /\ sspc' = "L416"
    /\ UNCHANGED <<pc, pending, cam_started, latest_frame, outs, conns, hvars,
                   ready, cvars, pumps, sshold, sswasactive, ssmark, ssact, ssclean, sscam, applied, notif, nact,
                   player, aux>>

\* L416: self.on_stream_stop()
stop_stream_notify ==
    /\ sspc = "L416"
    /\ notif' = Notify("stop", "stop_stream", 0)
    /\ sspc' = "idle"
    /\ UNCHANGED <<recv, outs, conns, hvars, ready, cvars, pumps, sshold,
                   sswasactive, ssmark, ssact, ssclean, sscam, applied, nact, player, aux>>

\* -------------------------------------------------------------- on_track
\* on_track without the test of self.has_stream.
on_track_video_untested(s) ==
    /\ hpc[s] = "setrd"
    /\ pcst[s] = "open"
    /\ vpc[s] = "none"
    /\ ~LoopBusy
    /\ vpc' = [vpc EXCEPT ![s] = "ot_set"]
    /\ UNCHANGED <<recv, outs, conns, hvars, ready, cvars, apc, vgot, agot, afail,
                   svars, applied, notif, nact, player, aux>>

\* The connection emits "track" while setRemoteDescription is applied.
\* L124-L125: a video track; tests self.has_stream.  With the stream
\* already active the pump is scheduled right away (L132).
on_track_video(s) ==
    /\ hpc[s] = "setrd"
    /\ pcst[s] = "open"
    /\ vpc[s] = "none"
    /\ ~LoopBusy
    /\ vpc' = [vpc EXCEPT ![s] = IF has_stream THEN "recv" ELSE "ot_set"]
    /\ UNCHANGED <<recv, outs, conns, hvars, ready, cvars, apc, vgot, agot, afail,
                   svars, applied, notif, nact, player, aux>>

\* L126: self.has_stream = True
on_track_set(s) ==
    /\ vpc[s] = "ot_set"
    /\ has_stream' = TRUE
    /\ nact' = IF has_stream THEN nact ELSE nact + 1
    /\ vpc' = [vpc EXCEPT ![s] = "ot_notify"]
    /\ UNCHANGED <<pc, pending, cam_started, latest_frame, outs, conns, hvars,
                   ready, cvars, apc, vgot, agot, afail, svars, applied, notif, player, aux>>

\* L127-L132: self.on_stream_start(); the video pump is scheduled.
on_track_notify(s) ==
    /\ vpc[s] = "ot_notify"
    /\ notif' = Notify("start", "track", s)
    /\ vpc' = [vpc EXCEPT ![s] = "recv"]
    /\ UNCHANGED <<recv, outs, conns, hvars, ready, cvars, apc, vgot, agot, afail,
                   svars, applied, nact, player, aux>>

\* L127-L129 with on_stream_start raising out of on_track: the pump is
\* not scheduled.
on_track_notify_uncaught(s) ==
    /\ vpc[s] = "ot_notify"
    /\ notif' = Notify("start", "track", s)
    /\ craised' = [craised EXCEPT !.start = @ \cup {s}]
    /\ vpc' = [vpc EXCEPT ![s] = "done"]
    /\ UNCHANGED <<recv, outs, conns, hvars, ready, cvars, apc, vgot, agot, afail,
                   svars, applied, nact, player, noraised>>

\* L127-L132: self.on_stream_start() raises; the except clause logs it and
\* the video pump is scheduled.
on_track_notify_raises(s) ==
    /\ vpc[s] = "ot_notify"
    /\ notif' = Notify("start", "track", s)
    /\ craised' = [craised EXCEPT !.start = @ \cup {s}]
    /\ vpc' = [vpc EXCEPT ![s] = "recv"]
    /\ UNCHANGED <<recv, outs, conns, hvars, ready, cvars, apc, vgot, agot, afail,
                   svars, applied, nact, player, noraised>>

\* L134-L136: an audio track; the audio pump is scheduled.
on_track_audio(s) ==
    /\ hpc[s] = "setrd"
    /\ pcst[s] = "open"
    /\ apc[s] = "none"
    /\ ~LoopBusy
    /\ apc' = [apc EXCEPT ![s] = "L204"]
    /\ UNCHANGED <<recv, outs, conns, hvars, ready, cvars, vpc, vgot, agot, afail,
                   svars, applied, notif, nact, player, aux>>

\* ----------------------------------------------- _cleanup_after_stream_stop
PumpAt(k, s) == IF k = "video" THEN vpc[s] ELSE apc[s]

SetPump(k, s, v) ==
    IF k = "video"
      THEN vpc' = [vpc EXCEPT ![s] = v] /\ apc' = apc
      ELSE apc' = [apc EXCEPT ![s] = v] /\ vpc' = vpc

\* L297: if self.has_stream
cleanup_test(k, s) ==
    /\ PumpAt(k, s) = "cl_test"
    /\ SetPump(k, s, IF has_stream THEN "cl_clear" ELSE "cl_camchk")
    /\ UNCHANGED <<recv, outs, conns, hvars, ready, cvars, vgot, agot, afail,
                   svars, applied, notif, nact, player, aux>>

\* L298: self.has_stream = False
cleanup_clear(k, s) ==
    /\ PumpAt(k, s) = "cl_clear"
    /\ has_stream' = FALSE
    /\ SetPump(k, s, "cl_notify")
    /\ UNCHANGED <<pc, pending, cam_started, latest_frame, outs, conns, hvars,
                   ready, cvars, vgot, agot, afail, svars, applied, notif, nact, player, aux>>

\* L299-L303: self.on_stream_stop()
cleanup_notify(k, s) ==
    /\ PumpAt(k, s) = "cl_notify"
    /\ notif' = Notify("stop", k, s)
    /\ SetPump(k, s, "cl_camchk")
    /\ UNCHANGED <<recv, outs, conns, hvars, ready, cvars, vgot, agot, afail,
                   svars, applied, nact, player, aux>>

\* L299-L303: self.on_stream_stop() raises; the except clause logs it and
\* the cleanup goes on.
cleanup_notify_raises(k, s) ==
    /\ PumpAt(k, s) = "cl_notify"
    /\ notif' = Notify("stop", k, s)
    /\ craised' = [craised EXCEPT !.stop = @ \cup {<<k, s>>}]
    /\ SetPump(k, s, "cl_camchk")
    /\ UNCHANGED <<recv, outs, conns, hvars, ready, cvars, vgot, agot, afail,
                   svars, applied, nact, player, noraised>>

\* L305, L334-L337: stop_preview with a live preview thread: it is told to
\* stop and joined.
cleanup_preview(k, s) ==
    /\ PumpAt(k, s) = "cl_camchk"
    /\ PreviewAlive
    /\ pv_running' = FALSE
    /\ SetPump(k, s, "cl_join")
    /\ UNCHANGED <<recv, outs, conns, hvars, ready, cvars, vgot, agot, afail,
                   svars, logs, player, frame_lock, pv_thread, npv, pvpc, pvframe, nopreview>>

\* L337-L345: join returns, the thread having exited or the timeout having
\* passed; the handle is dropped.
cleanup_preview_joined(k, s) ==
    /\ PumpAt(k, s) = "cl_join"
    /\ pv_thread' = 0
    /\ SetPump(k, s, "cl_camchk")
    /\ UNCHANGED <<recv, outs, conns, hvars, ready, cvars, vgot, agot, afail,
                   svars, logs, player, frame_lock, pv_running, npv, pvpc, pvframe, nopreview>>

\* L305-L306, L339-L345, L384: stop_preview() with no live preview thread;
\* stop_virtual_camera tests self._virtual_cam_started
cleanup_cam_test(k, s) ==
    /\ PumpAt(k, s) = "cl_camchk"
    /\ ~PreviewAlive
    /\ pv_thread' = 0
    /\ SetPump(k, s, IF cam_started THEN "cl_camstop" ELSE "cl_camflag")
    /\ UNCHANGED <<recv, outs, conns, hvars, ready, cvars, vgot, agot, afail,
                   svars, applied, notif, nact, player,
                   frame_lock, pv_running, npv, pvpc, pvframe, nopreview>>

\* L385: self._virtual_cam.stop()
cleanup_cam_stop(k, s) ==
    /\ PumpAt(k, s) = "cl_camstop"
    /\ camera_stop
    /\ SetPump(k, s, "cl_camflag")
    /\ UNCHANGED <<recv, vbc_running, vbc_owner, conns, hvars, ready, cvars,
                   vgot, agot, afail, svars, applied, notif, nact, player, aux>>

\* L389: self._virtual_cam_started = False; the pump has ended.
cleanup_cam_flag(k, s) ==
    /\ PumpAt(k, s) = "cl_camflag"
    /\ cam_started' = FALSE
    /\ SetPump(k, s, "done")
    /\ UNCHANGED <<pc, pending, has_stream, latest_frame, outs, conns, hvars,
                   ready, cvars, vgot, agot, afail, svars, applied, notif, nact, player, aux>>

\* ----------------------------------------------------------- _recv_video
\* L169-L179: track.recv() yields a frame; it is resized and stored in
\* self.latest_frame under the lock.
recv_video_frame(s) ==
    /\ vpc[s] = "recv"
    /\ frame_lock = 0
    /\ pcst[s] = "open"
    /\ ~LoopBusy
    /\ vgot' = [vgot EXCEPT ![s] = TRUE]
    /\ latest_frame' = s
    /\ vpc' = [vpc EXCEPT ![s] = "camchk"]
    /\ UNCHANGED <<pc, pending, has_stream, cam_started, outs, conns, hvars,
                   ready, cvars, apc, agot, afail, svars, applied, notif, nact, player, aux>>

\* L181: if not self._virtual_cam_started; else L185 send_frame and the
\* next recv.
recv_video_cam_test(s) ==
    /\ vpc[s] = "camchk"
    /\ vpc' = [vpc EXCEPT ![s] = IF cam_started THEN "recv" ELSE "camstart"]
    /\ UNCHANGED <<recv, outs, conns, hvars, ready, cvars, apc, vgot, agot, afail,
                   svars, applied, notif, nact, player, aux>>

\* L182: self._virtual_cam.start(...): a no-op while the pacer thread is
\* alive, else the thread is started and binds the device.
recv_video_cam_start(s) ==
    /\ vpc[s] = "camstart"
    /\ cam_running' = TRUE
    /\ cam_owner' = IF cam_running THEN cam_owner ELSE s
    /\ vpc' = [vpc EXCEPT ![s] = "camflag"]
    /\ UNCHANGED <<recv, vbc_running, vbc_owner, conns, hvars, ready, cvars, apc,
                   vgot, agot, afail, svars, applied, notif, nact, player, aux>>

\* L183-L185: self._virtual_cam_started = True; send_frame; next recv.
recv_video_cam_flag(s) ==
    /\ vpc[s] = "camflag"
    /\ cam_started' = TRUE
    /\ vpc' = [vpc EXCEPT ![s] = "recv"]
    /\ UNCHANGED <<pc, pending, has_stream, latest_frame, outs, conns, hvars,
                   ready, cvars, apc, vgot, agot, afail, svars, applied, notif, nact, player, aux>>

\* L187-L191: track.recv() raises (the track has ended, or its connection
\* was closed); the finally clause runs _cleanup_after_stream_stop.
recv_video_end(s) ==
    /\ vpc[s] = "recv"
    /\ ~LoopBusy
    /\ vpc' = [vpc EXCEPT ![s] = "cl_test"]
    /\ UNCHANGED <<recv, outs, conns, hvars, ready, cvars, apc, vgot, agot, afail,
                   svars, applied, notif, nact, player, aux>>

\* ----------------------------------------------------------- _recv_audio
\* L204-L210: the pump starts the player unless it is running; start()
\* raises when the device cannot be opened, which is logged.
recv_audio_start(s, ok) ==
    /\ apc[s] = "L204"
    /\ ~LoopBusy
    /\ vbc_start(ok)
    /\ vbc_owner' = IF ~vbc_running /\ ok THEN s ELSE vbc_owner
    /\ afail' = [afail EXCEPT ![s] = ~vbc_running /\ ~ok]
    /\ apc' = [apc EXCEPT ![s] = "recv"]
    /\ UNCHANGED <<recv, cam_running, cam_owner, conns, hvars, ready, cvars, vpc,
                   vgot, agot, svars, applied, notif, nact, nwr, aux>>

\* L214-L257: track.recv() yields a frame, which is converted to
\* interleaved int16 bytes.
recv_audio_frame(s) ==
    /\ apc[s] = "recv"
    /\ pcst[s] = "open"
    /\ ~LoopBusy
    /\ Len(vbuf) < MaxBuffered
    /\ agot' = [agot EXCEPT ![s] = TRUE]
    /\ afail' = afail
    /\ apc' = [apc EXCEPT ![s] = "write"]
    /\ UNCHANGED <<recv, outs, conns, hvars, ready, cvars, vpc, vgot,
                   svars, applied, notif, nact, player, aux>>

\* L259-L279: self._vbc_player.write(interleaved), the bytes of a frame of
\* session s; the level is measured and the next recv awaited.
recv_audio_write(s) ==
    /\ apc[s] = "write"
    /\ vbc_write(<<s>>)
    /\ apc' = [apc EXCEPT ![s] = "recv"]
    /\ UNCHANGED <<recv, outs, conns, hvars, ready, cvars, vpc, vgot, agot, afail,
                   svars, applied, notif, nact, nwr, aux>>

\* L281-L284: track.recv() raises; the finally clause starts.
recv_audio_end(s) ==
    /\ apc[s] = "recv"
    /\ ~LoopBusy
    /\ apc' = [apc EXCEPT ![s] = "vbcstop"]
    /\ UNCHANGED <<recv, outs, conns, hvars, ready, cvars, vpc, vgot, agot, afail,
                   svars, applied, notif, nact, player, aux>>

\* L286-L294: self._vbc_player.stop(); audio_level = 0.0; then
\* _cleanup_after_stream_stop.
recv_audio_stop_player(s) ==
    /\ apc[s] = "vbcstop"
    /\ vbc_stop
    /\ apc' = [apc EXCEPT ![s] = "cl_test"]
    /\ UNCHANGED <<recv, cam_running, cam_owner, conns, hvars, ready, cvars, vpc,
                   vgot, agot, afail, svars, applied, notif, nact, aux>>

\* ------------------------------------------- _recv_audio: frame processing
\* Sample types of the frames av delivers. A floating-point sample is k/8,
\* an int32 sample is k * 2^24, int16 and uint8 samples are themselves.
SampleKinds == {"float", "int16", "int32", "uint8"}

Samples(kind) ==
    CASE kind = "float" -> {4 * k : k \in -MaxFloat..MaxFloat}
      [] kind = "int16" -> {-32768, -32767, -16384, -1, 0, 1, 16383, 32767}
      [] kind = "int32" -> {-128, -64, -1, 0, 1, 64, 127}
      [] kind = "uint8" -> {0, 1, 128, 255}

\* Frames of one sample, or of one sample per stereo channel.
AudioFrames ==
    UNION {{[kind |-> k, data |-> d] : d \in UNION {[1..m -> Samples(k)] : m \in {1, 2}}} :
           k \in SampleKinds}

\* .astype(np.int16) of an in-range quotient: truncation toward zero.
Trunc(num, den) == IF num >= 0 THEN num \div den ELSE -((-num) \div den)

\* .astype(np.int16) of an out-of-range value wraps modulo 2^16.
Wrap16(v) == ((v + 32768) % 65536) - 32768

\* The float branch without np.clip.
ToInt16_unclipped(kind, x) ==
    CASE kind = "float" -> Wrap16(Trunc(x * 32767, 8))
      [] kind = "int16" -> x
      [] kind = "int32" -> Trunc(x * 32767, 128)
      [] kind = "uint8" -> Trunc(x * 32767, 255)

\* L244-L250: float samples are clipped to [-1, 1] and scaled by 32767;
\* int16 samples are kept; other integers are divided by the maximum of
\* their type (2^31 in float32 for int32, 255 for uint8) and scaled by 32767.
ToInt16(kind, x) ==
    CASE kind = "float" ->
            Trunc((IF x < -8 THEN -8 ELSE IF x > 8 THEN 8 ELSE x) * 32767, 8)
      [] kind = "int16" -> x
      [] kind = "int32" -> Trunc(x * 32767, 128)
      [] kind = "uint8" -> Trunc(x * 32767, 255)

\* L233-L252: the frame as interleaved int16 samples.
Convert(frame) == [i \in 1..Len(frame.data) |-> ToInt16(frame.kind, frame.data[i])]

\* The least sum of squares of n int16 samples whose level is 1.0:
\* 4.2 * sqrt(sum / n) / 32768 >= 1, i.e. 441 * sum >= 25 * n * 2^30.
Threshold(n) ==
    25 * n * (2^30 \div 441) + (25 * n * (2^30 % 441) + 440) \div 441

\* The sum of the squares of the samples, counted up to cap.
RECURSIVE SatSumSq(_, _)
SatSumSq(data, cap) ==
    IF data = <<>> THEN 0
    ELSE LET rest == SatSumSq(Tail(data), cap)
             sq   == Head(data) * Head(data)
         IN  IF rest + sq >= cap THEN cap ELSE rest + sq

\* The level without min(1.0, ...).
Level_unclamped(data) ==
    LET ss == SatSumSq(data, 2 * Threshold(Len(data)))
    IN  IF ss = 0 THEN LevelZero ELSE [clamped |-> FALSE, sumsq |-> ss, n |-> Len(data)]

\* L267-L276: max(0.0, min(1.0, rms * 4.2)) with rms the root mean square of
\* the samples divided by 32768.
Level(data) ==
    LET cap == Threshold(Len(data))
        ss  == SatSumSq(data, cap)
    IN  IF ss >= cap THEN LevelOne
        ELSE IF ss = 0 THEN LevelZero
        ELSE [clamped |-> FALSE, sumsq |-> ss, n |-> Len(data)]

\* L134-L136, L200-L212: an audio track is attached and its pump started.
audio_track(p) ==
    /\ alpc[p] = "none"
    /\ alpc' = [alpc EXCEPT ![p] = "recv"]
    /\ UNCHANGED <<core, noaudio, arr, interleaved, audio_level, alsrc>>

\* L214-L279: a frame is received, converted and its level measured.
audio_frame(p, frame) ==
    /\ alpc[p] = "recv"
    /\ arr' = frame
    /\ interleaved' = Convert(frame)
    /\ audio_level' = Level(Convert(frame))
    /\ alsrc' = "frame"
    /\ UNCHANGED <<core, noaudio, alpc>>

\* L281-L293: track.recv() raises; self.audio_level = 0.0
audio_ended(p) ==
    /\ alpc[p] = "recv"
    /\ alpc' = [alpc EXCEPT ![p] = "ended"]
    /\ audio_level' = LevelZero
    /\ alsrc' = "end"
    /\ UNCHANGED <<core, noaudio, arr, interleaved>>

\* -------------------------------------------------------- VirtualCamera
\* The fields of WebRTCReceiver other than _virtual_cam_started.
nostarted == <<pc, pending, has_stream, latest_frame, outs, conns, hvars, ready,
               cvars, pumps, svars, logs, player>>

At(c, pos) == callers[c].at = pos
Goto(c, pos) == callers' = [callers EXCEPT ![c].at = pos]

\* self._thread and self._thread.is_alive()
PacerAlive(t) == t # 0 /\ pacers[t].at \notin {"none", "off"}

\* _recv_video, L169-L179: the pump receives a frame and normalizes it to
\* width w.
cam_frame(w, maxframes) ==
    /\ At("loop", "idle")
    /\ cnt.frames < maxframes
    /\ cnt' = [cnt EXCEPT !.frames = @ + 1]
    /\ obs' = [obs EXCEPT !.cur = [id |-> cnt.frames + 1, w |-> w]]
    /\ Goto("loop", "L181")
    /\ UNCHANGED <<core, novcam, vc, pacers>>

\* L181: if not self._virtual_cam_started
cam_frame_test ==
    /\ At("loop", "L181")
    /\ Goto("loop", IF cam_started THEN "L36" ELSE "L19")
    /\ UNCHANGED <<core, novcam, vc, pacers, cnt, obs>>

\* VirtualCamera.start, L19: return if the thread is alive
start_test ==
    /\ At("loop", "L19")
    /\ Goto("loop", IF PacerAlive(vc.thread) THEN "L183" ELSE "L20")
    /\ UNCHANGED <<core, novcam, vc, pacers, cnt, obs>>

\* L20-L22: self._width = width (the height is always 720, the rate 30)
start_dims ==
    /\ At("loop", "L20")
    /\ vc' = [vc EXCEPT !.width = obs.cur.w]
    /\ Goto("loop", "L23")
    /\ UNCHANGED <<core, novcam, pacers, cnt, obs>>

\* L23: self._running.set()
start_set ==
    /\ At("loop", "L23")
    /\ vc' = [vc EXCEPT !.running = TRUE]
    /\ Goto("loop", "L24")
    /\ UNCHANGED <<core, novcam, pacers, cnt, obs>>

\* L24-L25: the thread is created, stored in self._thread and started.
start_thread ==
    /\ At("loop", "L24")
    /\ cnt.pacers < MaxPacers
    /\ cnt' = [cnt EXCEPT !.pacers = @ + 1]
    /\ vc' = [vc EXCEPT !.thread = cnt.pacers + 1]
    /\ pacers' = [pacers EXCEPT ![cnt.pacers + 1].at = "bind"]
    /\ Goto("loop", "L183")
    /\ UNCHANGED <<core, novcam, obs>>

\* _recv_video, L183: self._virtual_cam_started = True
cam_frame_flag ==
    /\ At("loop", "L183")
    /\ cam_started' = TRUE
    /\ Goto("loop", "L36")
    /\ UNCHANGED <<nostarted, novcam, vc, pacers, cnt, obs>>

\* send_frame has returned: the frame is noted if the camera is running.
Returned == IF vc.running THEN obs.returned \cup {obs.cur.id} ELSE obs.returned

\* VirtualCamera.send_frame, L36: return if not running
send_test ==
    /\ At("loop", "L36")
    /\ IF vc.running
         THEN /\ obs' = [obs EXCEPT !.accepted = @ \cup {obs.cur.id}]
              /\ Goto("loop", "L37")
         ELSE /\ obs' = obs
              /\ Goto("loop", "idle")
    /\ UNCHANGED <<core, novcam, vc, pacers, cnt>>

\* L37-L38: put_nowait, which raises queue.Full on a full queue
send_put ==
    /\ At("loop", "L37")
    /\ IF Len(vc.q) < QueueSize
         THEN /\ vc' = [vc EXCEPT !.q = Append(@, obs.cur)]
              /\ obs' = [obs EXCEPT !.queued = @ \cup {obs.cur.id}, !.returned = Returned]
              /\ Goto("loop", "idle")
         ELSE /\ UNCHANGED <<vc, obs>>
              /\ Goto("loop", "L39")
    /\ UNCHANGED <<core, novcam, pacers, cnt>>

\* L39: get_nowait drops the oldest frame; queue.Empty is swallowed at L40
\* and the frame in hand is given up.
send_drop ==
    /\ At("loop", "L39")
    /\ IF vc.q # <<>>
         THEN /\ vc' = [vc EXCEPT !.q = Tail(@)]
              /\ obs' = obs
              /\ Goto("loop", "L39put")
         ELSE /\ vc' = vc
              /\ obs' = [obs EXCEPT !.returned = Returned]
              /\ Goto("loop", "idle")
    /\ UNCHANGED <<core, novcam, pacers, cnt>>

\* L39: the second put_nowait; queue.Full is swallowed at L40.
send_put_again ==
    /\ At("loop", "L39put")
    /\ IF Len(vc.q) < QueueSize
         THEN /\ vc' = [vc EXCEPT !.q = Append(@, obs.cur)]
              /\ obs' = [obs EXCEPT !.queued = @ \cup {obs.cur.id}, !.returned = Returned]
         ELSE /\ vc' = vc
              /\ obs' = [obs EXCEPT !.returned = Returned]
    /\ Goto("loop", "idle")
    /\ UNCHANGED <<core, novcam, pacers, cnt>>

\* _cleanup_after_stream_stop, L306: a pump has ended and its cleanup calls
\* stop_virtual_camera on the loop thread.
cam_cleanup ==
    /\ At("loop", "idle")
    /\ cnt.frames > 0
    /\ cnt.cleanups < CamCleanups
    /\ cnt' = [cnt EXCEPT !.cleanups = @ + 1]
    /\ Goto("loop", "L384")
    /\ UNCHANGED <<core, novcam, vc, pacers, obs>>

\* stop_stream, L393: stop_virtual_camera on the websocket thread.
cam_stop_stream ==
    /\ At("ws", "idle")
    /\ cnt.stops < CamStops
    /\ cnt' = [cnt EXCEPT !.stops = @ + 1]
    /\ Goto("ws", "L384")
    /\ UNCHANGED <<core, novcam, vc, pacers, obs>>

\* stop_virtual_camera, L384: if self._virtual_cam_started
svc_test(c) ==
    /\ At(c, "L384")
    /\ Goto(c, IF cam_started THEN "L28" ELSE "L389")
    /\ UNCHANGED <<core, novcam, vc, pacers, cnt, obs>>

\* VirtualCamera.stop, L28: self._running.clear()
stop_clear(c) ==
    /\ At(c, "L28")
    /\ vc' = [vc EXCEPT !.running = FALSE]
    /\ Goto(c, "L30")
    /\ UNCHANGED <<core, novcam, pacers, cnt, obs>>

\* L30: while not self._q.empty(): self._q.get_nowait()
stop_drain(c) ==
    /\ At(c, "L30")
    /\ IF vc.q = <<>>
         THEN /\ UNCHANGED <<vc, obs>>
              /\ Goto(c, "L32")
         ELSE /\ vc' = [vc EXCEPT !.q = Tail(@)]
              /\ obs' = [obs EXCEPT !.drained = @ \cup {Head(vc.q).id}]
              /\ callers' = callers
    /\ UNCHANGED <<core, novcam, pacers, cnt>>

\* L32: if self._thread: the thread to join is read from the field
stop_join(c) ==
    /\ At(c, "L32")
    /\ callers' = [callers EXCEPT ![c] =
                      IF vc.thread = 0 THEN [at |-> "L33", join |-> 0]
                                       ELSE [at |-> "join", join |-> vc.thread]]
    /\ UNCHANGED <<core, novcam, vc, pacers, cnt, obs>>

\* L32: join returns, the thread having exited.
stop_joined(c) ==
    /\ At(c, "join")
    /\ ~PacerAlive(callers[c].join)
    /\ callers' = [callers EXCEPT ![c] = [at |-> "L33", join |-> 0]]
    /\ UNCHANGED <<core, novcam, vc, pacers, cnt, obs>>

\* L32: join(timeout=1) returns with the thread alive.
stop_join_timeout(c) ==
    /\ At(c, "join")
    /\ PacerAlive(callers[c].join)
    /\ callers' = [callers EXCEPT ![c] = [at |-> "L33", join |-> 0]]
    /\ UNCHANGED <<core, novcam, vc, pacers, cnt, obs>>

\* L33: self._thread = None
stop_reset(c) ==
    /\ At(c, "L33")
    /\ vc' = [vc EXCEPT !.thread = 0]
    /\ Goto(c, "L389")
    /\ UNCHANGED <<core, novcam, pacers, cnt, obs>>

\* stop_virtual_camera, L389: self._virtual_cam_started = False
svc_flag(c) ==
    /\ At(c, "L389")
    /\ cam_started' = FALSE
    /\ Goto(c, "idle")
    /\ UNCHANGED <<nostarted, novcam, vc, pacers, cnt, obs>>

\* _run, L44: the device is bound with the current self._width
pacer_bind(t) ==
    /\ pacers[t].at = "bind"
    /\ pacers' = [pacers EXCEPT ![t] = [at |-> "wait", bound |-> vc.width, frame |-> 0]]
    /\ UNCHANGED <<core, novcam, vc, callers, cnt, obs>>

\* L47: while self._running.is_set()
pacer_test(t) ==
    /\ pacers[t].at = "wait"
    /\ pacers' = [pacers EXCEPT ![t].at = IF vc.running THEN "get" ELSE "off"]
    /\ UNCHANGED <<core, novcam, vc, callers, cnt, obs>>

\* L48: self._q.get(timeout=0.2) yields the oldest frame
pacer_get(t) ==
    /\ pacers[t].at = "get"
    /\ vc.q # <<>>
    /\ vc' = [vc EXCEPT !.q = Tail(@)]
    /\ pacers' = [pacers EXCEPT ![t].at = "emit", ![t].frame = Head(vc.q).id]
    /\ obs' = [obs EXCEPT !.taken = Append(@, Head(vc.q).id)]
    /\ UNCHANGED <<core, novcam, callers, cnt>>

\* The device accepts a frame of its bound width; cam.send raises on any
\* other, which ends the thread (L63-L65).
Emit(t) ==
    /\ obs' = [obs EXCEPT !.emitted = @ \cup {<<vc.width, pacers[t].bound>>}]
    /\ pacers' = [pacers EXCEPT ![t].at =
                     IF vc.width = pacers[t].bound THEN "wait" ELSE "off"]

\* L49-L56: the get timed out; a black frame of self._width is emitted.
pacer_idle(t) ==
    /\ pacers[t].at = "get"
    /\ vc.q = <<>>
    /\ Emit(t)
    /\ UNCHANGED <<core, novcam, vc, callers, cnt>>

\* L57-L62: the frame is resized to self._width unless it has that width,
\* and emitted.
pacer_emit(t) ==
    /\ pacers[t].at = "emit"
    /\ Emit(t)
    /\ UNCHANGED <<core, novcam, vc, callers, cnt>>

\* ---------------------------------------------------- the pumps' lifetime
\* A session's connection, the pumps of its tracks, and the two ways a
\* session is closed: a superseding offer and stop_stream.

\* A coroutine is in the middle of a synchronous stretch on the loop.
LoopHeld ==
    \/ loffer.at \in {"L96", "L100", "L119"}
    \/ \E p \in LPumps : lpump[p].at = "finally"

\* receive_offer: _handle_offer is handed to the loop.
session_offer ==
    /\ loffer.at = "idle"
    /\ loffer.n < CloseOffers
    /\ loffer' = [loffer EXCEPT !.at = "L94", !.n = @ + 1]
    /\ UNCHANGED <<core, nolife, lcur, lconn, lpump, lstop, lready>>

\* _handle_offer, L94: if self._pc; L102-L117 with no session in place.
session_offer_test ==
    /\ loffer.at = "L94"
    /\ ~LoopHeld
    /\ loffer' = [loffer EXCEPT !.at = IF lcur # 0 THEN "L96" ELSE "L119"]
    /\ UNCHANGED <<core, nolife, lcur, lconn, lpump, lstop, lready>>

\* L96: await self._pc.close(); self._pc read as None raises into L97.
session_offer_close ==
    /\ loffer.at = "L96"
    /\ loffer' = IF lcur # 0 THEN [loffer EXCEPT !.at = "closing", !.hold = lcur]
                             ELSE [loffer EXCEPT !.at = "L100"]
    /\ UNCHANGED <<core, nolife, lcur, lconn, lpump, lstop, lready>>

\* L96: the awaited close() completes.
session_offer_closed ==
    /\ loffer.at = "closing"
    /\ ~LoopHeld
    /\ lconn' = [lconn EXCEPT ![loffer.hold] = "closed"]
    /\ loffer' = [loffer EXCEPT !.at = "L100", !.hold = 0]
    /\ UNCHANGED <<core, nolife, lcur, lpump, lstop, lready>>

\* L100-L117: self._pc = None; pc = RTCPeerConnection(...)
session_offer_clear ==
    /\ loffer.at = "L100"
    /\ lcur' = 0
    /\ loffer' = [loffer EXCEPT !.at = "L119"]
    /\ UNCHANGED <<core, nolife, lconn, lpump, lstop, lready>>

\* L119-L143: self._pc = pc; setRemoteDescription is awaited.
session_offer_assign ==
    /\ loffer.at = "L119"
    /\ lcur' = loffer.n
    /\ lconn' = [lconn EXCEPT ![loffer.n] = "open"]
    /\ loffer' = [loffer EXCEPT !.at = "setrd", !.new = loffer.n]
    /\ UNCHANGED <<core, nolife, lpump, lstop, lready>>

\* L143-L163: the rest of the negotiation.
session_offer_done ==
    /\ loffer.at = "setrd"
    /\ ~LoopHeld
    /\ loffer' = [loffer EXCEPT !.at = "idle", !.new = 0]
    /\ UNCHANGED <<core, nolife, lcur, lconn, lpump, lstop, lready>>

\* on_track, L121-L136: a track of the new connection is attached and its
\* pump scheduled.
pump_attach(p, kind) ==
    /\ loffer.at = "setrd"
    /\ lconn[loffer.new] = "open"
    /\ lpump[p].at = "none"
    /\ IF p = 1 THEN TRUE ELSE lpump[p - 1].at # "none"
    /\ ~LoopHeld
    /\ lpump' = [lpump EXCEPT ![p] = [kind |-> kind, conn |-> loffer.new,
                                      at |-> IF kind = "audio" THEN "L204" ELSE "recv",
                                      got |-> FALSE, ended |-> "no", cleanups |-> 0, stops |-> 0]]
    /\ UNCHANGED <<core, nolife, lcur, lconn, loffer, lstop, lready>>

\* _recv_audio, L204-L210: the player is started.
pump_player_start(p) ==
    /\ lpump[p].at = "L204"
    /\ ~LoopHeld
    /\ lpump' = [lpump EXCEPT ![p].at = "recv"]
    /\ UNCHANGED <<core, nolife, lcur, lconn, loffer, lstop, lready>>

\* L169-L185, L214-L279: track.recv() yields a frame, which is processed;
\* the loop body catches what the processing raises and awaits the next.
pump_frame(p) ==
    /\ lpump[p].at = "recv"
    /\ lconn[lpump[p].conn] = "open"
    /\ ~LoopHeld
    /\ lpump' = [lpump EXCEPT ![p].got = TRUE]
    /\ UNCHANGED <<core, nolife, lcur, lconn, loffer, lstop, lready>>

\* The remote end ends the track of an open connection: track.recv() raises.
pump_track_ended(p) ==
    /\ lpump[p].at = "recv"
    /\ lconn[lpump[p].conn] = "open"
    /\ ~LoopHeld
    /\ lpump' = [lpump EXCEPT ![p].at = "finally", ![p].ended = "track"]
    /\ UNCHANGED <<core, nolife, lcur, lconn, loffer, lstop, lready>>

\* The exception of track.recv() is caught inside the loop, which awaits
\* the next frame.
pump_recv_swallowed(p) ==
    /\ lpump[p].at = "recv"
    /\ lconn[lpump[p].conn] = "closed"
    /\ ~LoopHeld
    /\ UNCHANGED vars

\* L169, L187-L189, L214, L281-L282: the connection is closed and
\* track.recv() raises outside the loop body's handlers: the while loop is
\* left through the except clause.
pump_recv_raises(p) ==
    /\ lpump[p].at = "recv"
    /\ lconn[lpump[p].conn] = "closed"
    /\ ~LoopHeld
    /\ lpump' = [lpump EXCEPT ![p].at = "finally", ![p].ended = "closed"]
    /\ UNCHANGED <<core, nolife, lcur, lconn, loffer, lstop, lready>>

\* L190-L191, L284-L294: the finally clause: the audio pump stops the
\* player; _cleanup_after_stream_stop runs; the coroutine returns.
pump_finally(p) ==
    /\ lpump[p].at = "finally"
    /\ lpump' = [lpump EXCEPT ![p].at = "done",
                              ![p].cleanups = @ + 1,
                              ![p].stops = IF lpump[p].kind = "audio" THEN @ + 1 ELSE @]
    /\ UNCHANGED <<core, nolife, lcur, lconn, loffer, lstop, lready>>

\* stop_stream is called on the websocket thread, L391-L395: preview and
\* camera are stopped; if self._pc
session_stop ==
    /\ lstop.at = "idle"
    /\ lcur # 0
    /\ lstop' = [lstop EXCEPT !.at = "L397"]
    /\ UNCHANGED <<core, nolife, lcur, lconn, lpump, loffer, lready>>

\* L397: self._pc.close() is handed to the loop; self._pc read as None
\* raises into L398.
session_stop_schedule ==
    /\ lstop.at = "L397"
    /\ IF lcur # 0
         THEN /\ lstop' = [at |-> "wait", hold |-> lcur]
              /\ lready' = Append(lready, lcur)
         ELSE /\ lstop' = [lstop EXCEPT !.at = "L401"]
              /\ lready' = lready
    /\ UNCHANGED <<core, nolife, lcur, lconn, lpump, loffer>>

\* The loop runs the close() coroutine stop_stream scheduled.
session_close_run ==
    /\ lready # <<>>
    /\ ~LoopHeld
    /\ lconn' = [lconn EXCEPT ![Head(lready)] = "closed"]
    /\ lready' = Tail(lready)
    /\ UNCHANGED <<core, nolife, lcur, lpump, loffer, lstop>>

\* L397: .result(timeout=2) returns once the close has run ...
session_stop_result ==
    /\ lstop.at = "wait"
    /\ \A i \in 1..Len(lready) : lready[i] # lstop.hold
    /\ lstop' = [at |-> "L401", hold |-> 0]
    /\ UNCHANGED <<core, nolife, lcur, lconn, lpump, loffer, lready>>

\* ... or raises TimeoutError, which is logged (L398-L400).
session_stop_timeout ==
    /\ lstop.at = "wait"
    /\ \E i \in 1..Len(lready) : lready[i] = lstop.hold
    /\ lstop' = [at |-> "L401", hold |-> 0]
    /\ UNCHANGED <<core, nolife, lcur, lconn, lpump, loffer, lready>>

\* L401: self._pc = None
session_stop_clear ==
    /\ lstop.at = "L401"
    /\ lcur' = 0
    /\ lstop' = [lstop EXCEPT !.at = "idle"]
    /\ UNCHANGED <<core, nolife, lconn, lpump, loffer, lready>>

\* ------------------------------------------------------ WebSocketClient
\* self._thread and self._thread.is_alive()
SocketAlive == wsc.thread # 0 /\ wsc.th[wsc.thread] \in {"run", "open", "closing"}

\* The socket of the connection thread is open.
SocketOpen == wsc.thread # 0 /\ wsc.th[wsc.thread] = "open"

\* _log_status, L32-L36: the status goes to on_status, which is
\* MainWindow._on_ws_status (main_window.py L242-L250): it calls
\* stop_stream on every status other than CONNECTED.
Status(a, s, open) == Append(wsc.log, [a |-> a, s |-> s, open |-> open])

\* connect is called on the GUI thread.
connect ==
    /\ wsc.gui = "idle"
    /\ wsc.call < MaxConnects
    /\ wsc' = [wsc EXCEPT !.call = @ + 1, !.gui = "L54"]
    /\ UNCHANGED <<core, nowsc>>

\* L54-L56: with the thread alive ALREADY CONNECTED is reported and connect
\* returns.
connect_test ==
    /\ wsc.gui = "L54"
    /\ wsc' = IF SocketAlive
                THEN [wsc EXCEPT !.gui = "idle",
                                 !.log = Status(wsc.call, "ALREADY CONNECTED", SocketOpen)]
                ELSE [wsc EXCEPT !.gui = "L85"]
    /\ UNCHANGED <<core, nowsc>>

\* L58-L86: the WebSocketApp is built, the thread created, stored in
\* self._thread and started.
connect_start ==
    /\ wsc.gui = "L85"
    /\ wsc' = [wsc EXCEPT !.thread = wsc.call, !.th[wsc.call] = "run", !.gui = "L89"]
    /\ UNCHANGED <<core, nowsc>>

\* L89-L90: after the sleep CONNECTING is reported.
connect_report ==
    /\ wsc.gui = "L89"
    /\ wsc' = [wsc EXCEPT !.gui = "idle",
                          !.log = Status(wsc.call, "CONNECTING", SocketOpen)]
    /\ UNCHANGED <<core, nowsc>>

\* run, L79, _on_open, L38-L39: run_forever opens the socket and reports
\* CONNECTED.
socket_open(t) ==
    /\ wsc.th[t] = "run"
    /\ wsc' = [wsc EXCEPT !.th[t] = "open", !.log = Status(t, "CONNECTED", TRUE)]
    /\ UNCHANGED <<core, nowsc>>

\* _on_error, L50-L51: the connection fails, before or after it opened.
socket_error(t) ==
    /\ wsc.th[t] \in {"run", "open"}
    /\ wsc' = [wsc EXCEPT !.th[t] = "closing", !.log = Status(t, "ERROR", FALSE)]
    /\ UNCHANGED <<core, nowsc>>

\* _on_close, L47-L48, run, L82-L83: the socket is closed, by the peer, by
\* disconnect or after an error; run_forever returns and the thread ends.
socket_close(t) ==
    /\ wsc.th[t] \in {"open", "closing"}
    /\ wsc' = [wsc EXCEPT !.th[t] = "off", !.log = Status(t, "CLOSED", FALSE)]
    /\ UNCHANGED <<core, nowsc>>

\* disconnect, L93-L97, on the GUI thread: the socket is asked to close.
disconnect ==
    /\ wsc.gui = "idle"
    /\ wsc.call > 0
    /\ wsc.ndis < MaxDisconnects
    /\ wsc' = [wsc EXCEPT !.ndis = @ + 1, !.gui = "L99"]
    /\ UNCHANGED <<core, nowsc>>

\* L99-L100: join(timeout=2) returns, the thread having ended.
disconnect_joined ==
    /\ wsc.gui = "L99"
    /\ ~SocketAlive
    /\ wsc' = [wsc EXCEPT !.gui = "L101"]
    /\ UNCHANGED <<core, nowsc>>

\* L99-L100: join(timeout=2) returns with the thread alive.
disconnect_join_timeout ==
    /\ wsc.gui = "L99"
    /\ SocketAlive
    /\ wsc' = [wsc EXCEPT !.gui = "L101"]
    /\ UNCHANGED <<core, nowsc>>

\* L101: DISCONNECTED is reported.
disconnect_report ==
    /\ wsc.gui = "L101"
    /\ wsc' = [wsc EXCEPT !.gui = "idle", !.log = Status(0, "DISCONNECTED", SocketOpen)]
    /\ UNCHANGED <<core, nowsc>>

\* ------------------------------------------- _recv_video: normalization
\* L172-L176: target_h = 720; new_w = int(w * (target_h / h)). For the
\* frames below the double-precision product truncates to the integer
\* quotient of w * 720 by h.
Resize(w, h) == <<(w * 720) \div h, 720>>

VideoFrames ==
    ((1..MaxWidth) \X (1..MaxHeight)) \cup {<<1280, 960>>, <<1920, 1080>>}

\* L169-L176: a frame of w by h is received and resized.
recv_video_resize(w, h) ==
    /\ img' = <<w, h>>
    /\ resized' = Resize(w, h)
    /\ UNCHANGED <<core, nonorm>>

\* ------------------------------------------------------- specifications
\* _handle_offer with no session in place.
Negotiate(h) ==
    \/ handle_offer_begin(h)
    \/ handle_offer_assign(h)
    \/ handle_offer_remote_set(h)
    \/ handle_offer_drain(h)
    \/ handle_offer_clear_pending(h)
    \/ handle_offer_answer_created(h)
    \/ handle_offer_send_answer(h)
    \/ handle_offer_fail(h)

\* _handle_offer replacing a session.
Replace(h) ==
    \/ handle_offer_close(h)
    \/ handle_offer_closed(h)
    \/ handle_offer_clear(h)

AddCandidate(n) ==
    \/ \E c \in 1..n : add_candidate(c)
    \/ \E keys \in SUBSET CandidateKeys : add_candidate_malformed(keys)
    \/ add_candidate_append
    \/ add_candidate_schedule
    \/ run_add_candidate

\* stop_stream with no stream active and no camera started.
StopSession ==
    \/ stop_stream
    \/ stop_stream_cam_test
    \/ stop_stream_cam_flag
    \/ stop_stream_pc_test
    \/ stop_stream_pc_close
    \/ run_close
    \/ stop_stream_pc_closed
    \/ stop_stream_pc_timeout
    \/ stop_stream_pc_clear
    \/ stop_stream_vbc
    \/ stop_stream_frame
    \/ stop_stream_test

\* stop_stream on an active stream.
StopActive ==
    \/ stop_stream_cam_stop
    \/ stop_stream_clear
    \/ stop_stream_notify

Cleanup(k, s) ==
    \/ cleanup_test(k, s)
    \/ cleanup_clear(k, s)
    \/ cleanup_notify(k, s)
    \/ cleanup_cam_test(k, s)
    \/ cleanup_cam_stop(k, s)
    \/ cleanup_cam_flag(k, s)

Video(s) ==
    \/ on_track_video(s)
    \/ on_track_set(s)
    \/ on_track_notify(s)
    \/ recv_video_frame(s)
    \/ recv_video_cam_test(s)
    \/ recv_video_cam_start(s)
    \/ recv_video_cam_flag(s)
    \/ recv_video_end(s)
    \/ Cleanup("video", s)

Audio(s) ==
    \/ on_track_audio(s)
    \/ \E ok \in BOOLEAN : recv_audio_start(s, ok)
    \/ recv_audio_frame(s)
    \/ recv_audio_write(s)
    \/ recv_audio_end(s)
    \/ recv_audio_stop_player(s)
    \/ Cleanup("audio", s)

\* ICE negotiation: offers and candidates.
NextIce ==
    \/ \E h \in 1..IceOffers : receive_offer(h)
    \/ \E h \in Sessions : Negotiate(h)
    \/ \E h \in Sessions, ok \in BOOLEAN : handle_offer_applied(h, ok)
    \/ AddCandidate(IceCands)

SpecIce == Init /\ [][NextIce]_vars

\* Offer/answer: offers and stop_stream.
NextAnswer ==
    \/ \E h \in 1..AnswerOffers : receive_offer(h)
    \/ \E h \in Sessions : Negotiate(h) \/ Replace(h)
    \/ StopSession

SpecAnswer == Init /\ [][NextAnswer]_vars

\* Video tracks of successive sessions.
NextVideo ==
    \/ \E h \in 1..VideoOffers : receive_offer(h)
    \/ \E h \in Sessions : Negotiate(h) \/ Replace(h)
    \/ \E s \in Sessions : Video(s)

SpecVideo == Init /\ [][NextVideo]_vars

\* Renegotiation: overlapping offers with video tracks.
NextRenegotiate ==
    \/ \E h \in 1..MaxOffers : receive_offer(h)
    \/ \E h \in Sessions : Negotiate(h) \/ Replace(h)
    \/ \E s \in Sessions : Video(s)

SpecRenegotiate == Init /\ [][NextRenegotiate]_vars

\* The preview: the GUI thread's click, the preview threads, and the
\* stop_preview calls of stop_stream and of the pumps' cleanup.
Preview ==
    \/ preview_click
    \/ \E t \in Previews : \/ preview_loop_test(t)
                           \/ preview_window_closed(t)
                           \/ preview_acquire(t)
                           \/ preview_test(t)
                           \/ preview_copy(t)
                           \/ preview_show(t)
    \/ stop_stream_preview_joined
    \/ stop_stream_preview_timeout
    \/ \E s \in Sessions : \/ cleanup_preview("video", s)
                           \/ cleanup_preview_joined("video", s)

\* The preview of one session's video stream.
NextPreview ==
    \/ \E h \in 1..StreamOffers : receive_offer(h)
    \/ \E h \in Sessions : Negotiate(h)
    \/ \E s \in Sessions : Video(s)
    \/ StopSession
    \/ StopActive
    \/ Preview

SpecPreview == Init /\ [][NextPreview]_vars

\* VirtualCamera.start and send_frame called by the pump.
CamSend ==
    \/ cam_frame_test
    \/ start_test
    \/ start_dims
    \/ start_set
    \/ start_thread
    \/ cam_frame_flag
    \/ send_test
    \/ send_put

\* send_frame on a full queue.
CamFull ==
    \/ send_drop
    \/ send_put_again

\* stop_virtual_camera and VirtualCamera.stop called by thread c.
CamStop(c) ==
    \/ svc_test(c)
    \/ stop_clear(c)
    \/ stop_drain(c)
    \/ stop_join(c)
    \/ stop_joined(c)
    \/ stop_join_timeout(c)
    \/ stop_reset(c)
    \/ svc_flag(c)

\* The thread running VirtualCamera._run.
Pacer(t) ==
    \/ pacer_bind(t)
    \/ pacer_test(t)
    \/ pacer_get(t)
    \/ pacer_idle(t)
    \/ pacer_emit(t)

\* The hand-off queue: one pump sending frames of one width, stop_stream.
NextQueue ==
    \/ cam_frame(1, QueueFrames)
    \/ CamSend
    \/ CamFull
    \/ cam_stop_stream
    \/ CamStop("ws")
    \/ \E t \in Pacers : Pacer(t)

SpecQueue == Init /\ [][NextQueue]_vars

\* The camera's threads: pumps sending frames of several widths, the
\* cleanup of a pump that ends, stop_stream.
NextCamera ==
    \/ \E w \in 1..CamWidths : cam_frame(w, CamFrames)
    \/ CamSend
    \/ cam_cleanup
    \/ cam_stop_stream
    \/ \E c \in Callers : CamStop(c)
    \/ \E t \in Pacers : Pacer(t)

SpecCamera == Init /\ [][NextCamera]_vars

\* The audio pumps' frame processing.
NextAudio ==
    \/ \E p \in AudioTracks : audio_track(p)
    \/ \E p \in AudioTracks, frame \in AudioFrames : audio_frame(p, frame)
    \/ \E p \in AudioTracks : audio_ended(p)

SpecAudio == Init /\ [][NextAudio]_vars

\* The video pump's normalization.
NextResize == \E f \in VideoFrames : recv_video_resize(f[1], f[2])

SpecResize == Init /\ [][NextResize]_vars

\* Stream lifecycle of one session: tracks, pumps and stop_stream.
NextStream ==
    \/ \E h \in 1..StreamOffers : receive_offer(h)
    \/ \E h \in Sessions : Negotiate(h)
    \/ \E s \in Sessions : Video(s)
    \/ \E s \in Sessions : Audio(s)
    \/ StopSession
    \/ StopActive

SpecStream == Init /\ [][NextStream]_vars

\* _handle_offer superseding a session.
SessionOffer ==
    \/ session_offer_test
    \/ session_offer_close
    \/ session_offer_closed
    \/ session_offer_clear
    \/ session_offer_assign
    \/ session_offer_done

\* stop_stream closing the session.
SessionStop ==
    \/ session_stop_schedule
    \/ session_stop_result
    \/ session_stop_timeout
    \/ session_stop_clear

\* A pump from its start to its end.
Pump(p) ==
    \/ pump_player_start(p)
    \/ pump_frame(p)
    \/ pump_recv_raises(p)
    \/ pump_finally(p)

\* Closing a session: sessions, their pumps, superseding offers and
\* stop_stream.
NextClose ==
    \/ session_offer
    \/ SessionOffer
    \/ session_stop
    \/ SessionStop
    \/ session_close_run
    \/ \E p \in LPumps, kind \in {"video", "audio"} : pump_attach(p, kind)
    \/ \E p \in LPumps : pump_track_ended(p)
    \/ \E p \in LPumps : Pump(p)

\* The loop runs every coroutine that is ready (its ready queue is first
\* in, first out), and the thread in stop_stream runs on: what the remote
\* end and the callers do (offers, stop_stream calls, tracks, frames) is
\* not assumed to happen.
FairClose ==
    /\ WF_vars(SessionOffer)
    /\ WF_vars(SessionStop)
    /\ WF_vars(session_close_run)
    /\ \A p \in LPumps : /\ WF_vars(pump_player_start(p))
                          /\ WF_vars(pump_recv_raises(p))
                          /\ WF_vars(pump_finally(p))

SpecClose == Init /\ [][NextClose]_vars /\ FairClose

\* Callbacks that raise: one session with a video track and candidates.
NextCallbacks ==
    \/ \E h \in 1..CallbackOffers : receive_offer(h)
    \/ \E h \in Sessions : Negotiate(h)
    \/ \E h \in Sessions, ok \in BOOLEAN : handle_offer_applied(h, ok)
    \/ \E h \in Sessions : handle_offer_send_answer_raises(h)
    \/ \E c \in 1..CallbackCands : add_candidate(c)
    \/ add_candidate_append
    \/ add_candidate_schedule
    \/ run_add_candidate
    \/ \E s \in Sessions : Video(s)
    \/ \E s \in Sessions : on_track_notify_raises(s)
    \/ \E s \in Sessions : cleanup_notify_raises("video", s)

SpecCallbacks == Init /\ [][NextCallbacks]_vars

\* The websocket client: the GUI thread's connect and disconnect calls and
\* the connection threads.
NextSocket ==
    \/ connect
    \/ connect_test
    \/ connect_start
    \/ connect_report
    \/ \E t \in Connects : \/ socket_open(t)
                           \/ socket_error(t)
                           \/ socket_close(t)
    \/ disconnect
    \/ disconnect_joined
    \/ disconnect_join_timeout
    \/ disconnect_report

SpecSocket == Init /\ [][NextSocket]_vars

\* The audio player on its own: its caller's thread and the device's
\* callback thread.
NextPlayer ==
    \/ \E ok \in BOOLEAN : player_start(ok)
    \/ \E n \in 0..MaxRequest : player_write(n)
    \/ \E n \in 1..MaxRequest : player_callback(n)
    \/ player_stop

SpecPlayer == Init /\ [][NextPlayer]_vars

\* ----------------------------------------------------------------- claims
\* C1: every candidate is applied exactly once, and the candidates that
\* were buffered before the remote description was set are applied in
\* arrival order right after setRemoteDescription completes, i.e. before
\* any candidate that arrived later.  Candidates are numbered in arrival
\* order, so the log of addIceCandidate calls must be strictly increasing.
C1_AppliedOnceInArrivalOrder ==
    \A i, j \in DOMAIN applied : i < j => applied[i].c < applied[j].c

\* C2: no addIceCandidate call is started on a connection whose
\* setRemoteDescription has not completed.
C2_AppliedAfterRemoteDescription ==
    \A i \in DOMAIN applied : applied[i].rd

\* C3: in every reachable state at most one peer connection has been
\* constructed and not yet closed.
C3_AtMostOneOpenConnection ==
    Cardinality({s \in Sessions : pcst[s] = "open"}) <= 1

\* Every offer received has been handled to its end.
Settled ==
    /\ ready = <<>>
    /\ hpc[1] # "idle"
    /\ \A h \in Sessions : hpc[h] \in {"idle", "done", "failed"}

\* C4: after offers issued while a session is active have been handled,
\* exactly one session is active, and a camera or audio device binding
\* that is held belongs to a session whose pump has not yet run its
\* cleanup, so that a binding never outlives the teardown of its session.
C4_OneSessionBindingsReleased ==
    /\ Settled => Cardinality({s \in Sessions : pcst[s] = "open"}) = 1
    /\ cam_running => cam_owner \in Sessions /\ vpc[cam_owner] # "done"
    /\ vbc_running => vbc_owner \in Sessions /\ apc[vbc_owner] # "done"

Starts == {i \in DOMAIN notif : notif[i].ev = "start"}

Stops == {i \in DOMAIN notif : notif[i].ev = "stop"}

C6_StartStopAlternate ==
    \A i \in DOMAIN notif : notif[i].ev = IF i % 2 = 1 THEN "start" ELSE "stop"

\* C7: the end of an audio track while the video track of its session is
\* still delivering frames neither clears has_stream nor fires
\* on_stream_stop.
C7_AudioEndLeavesStream ==
    /\ \A i \in Stops : notif[i].by = "audio" => ~notif[i].vlive
    /\ \A s \in Sessions :
         apc[s] = "cl_notify" => ~(vpc[s] = "recv" /\ pcst[s] = "open")

\* on_stream_stop calls since the last entry of stop_stream, made or about
\* to be made.
StopsSince == Cardinality({i \in Stops : i > ssmark})

PendingStops ==
    Cardinality({s \in Sessions : vpc[s] = "cl_notify"})
      + Cardinality({s \in Sessions : apc[s] = "cl_notify"})

\* C8: a stop_stream call entered in the stopped state leaves it as it is;
\* one entered with the stream inactive fires no on_stream_stop; one
\* entered with the stream active leaves exactly one on_stream_stop fired
\* in total once it has returned.
C8_StopStreamIdempotent ==
    /\ ssclean => Stopped
    /\ (~sswasactive /\ ssact = nact) =>
         \A i \in Stops : i > ssmark => notif[i].by # "stop_stream"
    /\ (sswasactive /\ sspc = "idle") => StopsSince + PendingStops = 1

\* C9: a negotiation that succeeds has called send_answer_callback exactly
\* once, with type "answer", and no callback is made before the remote and
\* the local description are set.
C9_AnswerOnceAfterLocalDescription ==
    \A h \in Sessions :
        /\ Len(answers[h]) <= 1
        /\ hpc[h] = "done" => answers[h] = <<"answer">>
        /\ answers[h] # <<>> => rd[h] /\ ld[h] = "answer" /\ hpc[h] = "done"

\* Two offers were negotiated to the end, the second replacing the first.
C9_Witness ==
    /\ hpc[1] = "done" /\ hpc[2] = "done"
    /\ answers[1] = <<"answer">> /\ answers[2] = <<"answer">>
    /\ hold[2] = 1

\* C10: a failed negotiation sends no answer, and its session stays in
\* place until a later offer closes it: a failed session is either still
\* held in self._pc or closed.
C10_FailedSessionClosedByLaterOffer ==
    \A h \in Sessions :
        hpc[h] = "failed" =>
            /\ answers[h] = <<>>
            /\ pc = h \/ pcst[h] = "closed"

\* The candidates handler h has taken from self._pending_candidates.
Drained(h) == SelectSeq(applied, LAMBDA e : e.p = h /\ e.q)

\* C11: an addIceCandidate of the drain loop that raises does not abort the
\* negotiation: every iteration of the loop has applied its candidate, in
\* queue order; the step that ends a (failed) addIceCandidate goes on with
\* the loop and leaves the session as it is; and a handler that ran to its
\* end has sent its answer.
C11_DrainSurvivesCandidateFailure ==
    /\ [](\A h \in Sessions :
            /\ hpc[h] \in {"drain", "applying", "L150"} =>
                 Len(Drained(h)) = hidx[h]
            /\ \A i, j \in DOMAIN Drained(h) :
                 i < j => Drained(h)[i].c < Drained(h)[j].c
            /\ hpc[h] = "done" => answers[h] = <<"answer">>)
    /\ [][\A h \in Sessions :
            (hpc[h] = "applying" /\ hpc'[h] # "applying") =>
                /\ hpc'[h] = "drain"
                /\ pc' = pc /\ pcst' = pcst /\ pending' = pending]_vars

\* The addIceCandidate of the first of two queued candidates raised, both
\* were applied and the answer was sent.
C11_Witness ==
    /\ hraised[1]
    /\ hpc[1] = "done"
    /\ answers[1] = <<"answer">>
    /\ Len(Drained(1)) = 2
    /\ pcst[1] = "open"

\* A candidate that add_candidate still holds or has handed to the loop.
InFlight(c) ==
    \/ accand = c
    \/ \E i \in DOMAIN ready : ready[i].k = "cand" /\ ready[i].c = c

\* C12: every valid candidate passed to add_candidate is, once add_candidate
\* has dealt with it, in the pending queue or applied to a session.
C12_NoCandidateLost ==
    \A c \in 1..ncand :
        \/ InFlight(c)
        \/ \E i \in DOMAIN pending : pending[i] = c
        \/ \E i \in DOMAIN applied : applied[i].c = c

\* C13: add_candidate with a malformed candidate returns at once and leaves
\* the pending queue, the session, the loop's queue and the log of applied
\* candidates unchanged.
C13_MalformedCandidateIgnored ==
    [][nmal' # nmal =>
         /\ acpc' = "idle"
         /\ UNCHANGED <<pending, pc, pcst, ready, applied>>]_vars

\* A malformed candidate was passed while a valid one was queued and a
\* session was being negotiated.
C13_Witness ==
    /\ nmal = 1
    /\ pending = <<1>>
    /\ pc = 1 /\ hpc[1] = "setrd"

\* C14: a device callback asking for N bytes fills exactly N bytes in one
\* step: with B >= N bytes buffered, the first N buffered bytes, which are
\* removed from the front; with B < N, the B buffered bytes followed by
\* N - B zero bytes, and the buffer becomes empty.
C14_CallbackFillsRequest ==
    [][ncb' # ncb =>
         LET N == vreq'
             B == Len(vbuf)
         IN /\ Len(vout') = N
            /\ IF B >= N
                 THEN /\ \A i \in 1..N : vout'[i] = vbuf[i]
                      /\ Len(vbuf') = B - N
                      /\ \A i \in 1..(B - N) : vbuf'[i] = vbuf[N + i]
                 ELSE /\ \A i \in 1..B : vout'[i] = vbuf[i]
                      /\ \A i \in (B + 1)..N : vout'[i] = 0
                      /\ vbuf' = <<>>]_vars

\* One callback found the buffer full, the next found it short and padded
\* its output; a later write refilled the buffer.
C14_Witness ==
    /\ ncb = 2
    /\ vout = <<2, 0>>
    /\ vbuf = <<3>>
    /\ played = <<1, 2>>

\* C15: the underflow count grows by exactly 1 in a callback that finds
\* fewer bytes than it asks for, is unchanged by any other callback and by
\* every write, and is 0 after a start that succeeds.
C15_UnderflowCount ==
    [][/\ ncb' # ncb =>
            underflow' = underflow + (IF Len(vbuf) < vreq' THEN 1 ELSE 0)
       /\ nwr' # nwr => underflow' = underflow
       /\ (~vbc_running /\ vbc_running') => underflow' = 0]_vars

\* Of two callbacks one found enough bytes and the other an empty buffer.
C15_Witness ==
    /\ ncb = 2
    /\ underflow = 1
    /\ vbc_running
    /\ vout = <<0>>

\* C16: within a running period the buffered bytes delivered by the
\* callbacks are a prefix of the bytes written in that period: the bytes
\* pstart + 1, pstart + 2, ... in that order.
C16_PlayedPrefixOfWritten ==
    /\ Len(played) <= nwr - pstart
    /\ \A i \in DOMAIN played : played[i] = pstart + i

\* C17: once the audio pumps have ended the player is not running and its
\* buffer is empty, so that no byte of this session is left to be played
\* in a later one.
C17_PlayerStoppedAndEmpty ==
    (/\ \A s \in Sessions : apc[s] \in {"none", "done"}
     /\ \E s \in Sessions : apc[s] = "done"
     /\ sspc = "idle")
        => ~vbc_running /\ vbuf = <<>>

\* C18: whenever no session exists, no video pump is running and
\* stop_stream is not under way, the virtual camera is not running.
C18_CameraReleased ==
    (/\ pc = NoPc
     /\ \A s \in Sessions : vpc[s] \in {"none", "done"}
     /\ sspc = "idle")
        => ~cam_running

\* C19: when the audio device cannot be bound, the frames of the pump whose
\* start() failed are dropped: they are not accumulated in the player's
\* buffer while the device is not bound.
C19_FailedStartDropsFrames ==
    \A s \in Sessions :
        (afail[s] /\ ~vbc_running) => vbuf = <<>>

\* A bound device was bound by a pump that had received a frame.
C20_BoundOnFirstFrame ==
    /\ cam_running => (cam_owner \in Sessions /\ vgot[cam_owner])
    /\ vbc_running => (vbc_owner \in Sessions /\ agot[vbc_owner])

\* With no session, no pump and no stop_stream under way, nothing is bound.
C20_TornDownOnStop ==
    (/\ pc = NoPc
     /\ \A s \in Sessions : vpc[s] \in {"none", "done"} /\ apc[s] \in {"none", "done"}
     /\ sspc = "idle")
        => ~cam_running /\ ~vbc_running

\* C20: each device binding is created on the first frame of its media kind
\* (the camera on the first video frame, the audio output on the first audio
\* frame, not at track attachment) and is torn down on stream stop.
C20_LazyBindings ==
    C20_BoundOnFirstFrame /\ C20_TornDownOnStop

\* C21: a preview thread always obtains either nothing or a copy of the
\* latest frame: its read of the cache under the lock never fails.
C21_ReaderObtainsFrameOrNothing ==
    \A t \in Previews :
        /\ pvpc[t] # "dead"
        /\ pvframe[t] \in {0} \cup Sessions

\* C22: audio_level is in [0, 1] in every state; after a frame it is
\* min(1, 4.2 * RMS) of the frame's int16 samples divided by 32768, so 0.0
\* for an all-zero frame and 1.0 for a full-scale frame; it is 0.0 after the
\* audio track has ended.
C22_LevelInUnitInterval ==
    /\ \/ audio_level.clamped
       \/ audio_level.sumsq >= 0 /\ audio_level.sumsq < Threshold(audio_level.n)
    /\ alsrc = "frame" =>
         LET cap == Threshold(Len(interleaved))
             ss  == SatSumSq(interleaved, cap)
         IN  /\ audio_level.clamped <=> ss >= cap
             /\ ~audio_level.clamped =>
                    audio_level.sumsq * Len(interleaved) = ss * audio_level.n
             /\ (\A i \in DOMAIN interleaved : interleaved[i] = 0)
                    => audio_level = LevelZero
             /\ (\A i \in DOMAIN interleaved : interleaved[i] \in {-32768, -32767, 32767})
                    => audio_level = LevelOne
    /\ alsrc = "end" => audio_level = LevelZero
    /\ (/\ \A p \in AudioTracks : alpc[p] \in {"none", "ended"}
        /\ \E p \in AudioTracks : alpc[p] = "ended")
            => audio_level = LevelZero

\* One track has ended and the other has just processed a quiet frame: the
\* level is 4.2 * 128 / 32768, neither 0 nor 1.
C22_Witness ==
    /\ \E p \in AudioTracks : alpc[p] = "ended"
    /\ alsrc = "frame"
    /\ interleaved = <<128>>
    /\ audio_level = [clamped |-> FALSE, sumsq |-> 16384, n |-> 1]

\* round(w * 720 / h), halves rounded up.
Rounded(w, h) == (2 * w * 720 + h) \div (2 * h)

\* C23: a frame of width w and height h is resized to height 720 and width
\* round(w * 720 / h), the nearest integer.
C23_WidthRounded ==
    img # <<0, 0>> => resized = <<Rounded(img[1], img[2]), 720>>

\* C24 as stated: every converted sample lies in [-32767, 32767].
C24_SamplesInSymmetricRange ==
    \A i \in DOMAIN interleaved : interleaved[i] \in -32767..32767

\* C24 amended: every converted sample is an int16 value; a float sample x is
\* clipped to [-1, 1] and becomes x * 32767 truncated, within [-32767, 32767];
\* an int32 or uint8 sample is rescaled by the maximum of its type, within
\* [-32767, 32767]; an int16 sample is passed through unchanged, -32768
\* included.
C24_ConversionRanges ==
    /\ Len(interleaved) = Len(arr.data)
    /\ \A i \in DOMAIN interleaved :
         LET x == arr.data[i]
             y == interleaved[i]
         IN  /\ y \in -32768..32767
             /\ arr.kind = "float" =>
                  /\ y \in -32767..32767
                  /\ x >= 8 => y = 32767
                  /\ x <= -8 => y = -32767
                  /\ x = 4 => y \in 16382..16384
                  /\ (x > -8 /\ x < 8) =>
                        /\ 8 * y - 32767 * x \in -7..7
                        /\ (x >= 0 => 8 * y <= 32767 * x)
                        /\ (x <= 0 => 8 * y >= 32767 * x)
             /\ arr.kind = "int16" => y = x
             /\ arr.kind = "int32" =>
                  y \in -32767..32767 /\ 128 * y - 32767 * x \in -127..127
             /\ arr.kind = "uint8" =>
                  y \in 0..32767 /\ 255 * y - 32767 * x \in -254..0

\* A float frame with one sample at amplitude 0.5 and one beyond full scale.
C24_Witness ==
    /\ arr = [kind |-> "float", data |-> <<4, 12>>]
    /\ interleaved = <<16383, 32767>>

\* C25: a session whose video track has ended is CLOSED: once the video
\* pump and its cleanup have finished, the session's peer connection is
\* closed and it is no longer the active session.
C25_ClosedWhenVideoEnds ==
    \A s \in Sessions :
        vpc[s] = "done" => pcst[s] = "closed" /\ pc # s
\* C26: the hand-off queue never holds more than 4 frames, the frames the
\* pacer takes leave it in the order they were submitted, and a frame whose
\* send_frame has returned on a running camera was put into the queue.
C26_NewestFrameQueued ==
    /\ Len(vc.q) <= QueueSize
    /\ \A i, j \in 1..Len(obs.taken) : i < j => obs.taken[i] < obs.taken[j]
    /\ obs.returned \subseteq obs.queued

\* C27: every frame the pacer thread emits, taken from the queue or the idle
\* placeholder, has the width the thread's device was bound with.
C27_EmittedAsBound ==
    \A e \in obs.emitted : e[1] = e[2]

\* C28: once a session's connection is closed, by stop_stream or by a
\* superseding offer, every pump of that session ends; a pump that has ended
\* has run its cleanup exactly once, and an audio pump has stopped the
\* player exactly once, and no pump runs either before it ends.
C28_PumpsEndAfterClose ==
    /\ \A p \in LPumps :
          []<>(lpump[p].at = "none" \/ lconn[lpump[p].conn] # "closed" \/ lpump[p].at = "done")
    /\ [](\A p \in LPumps :
             /\ lpump[p].cleanups = (IF lpump[p].at = "done" THEN 1 ELSE 0)
             /\ lpump[p].stops = (IF lpump[p].at = "done" /\ lpump[p].kind = "audio" THEN 1 ELSE 0))

\* A pump that received frames, was ended by the closing of its session and
\* has run its cleanup, the session having been superseded by another.
C28_Witness ==
    \E p \in LPumps :
        /\ lpump[p].got /\ lpump[p].ended = "closed" /\ lpump[p].at = "done"
        /\ lconn[lpump[p].conn] = "closed"
        /\ lcur # 0 /\ lcur # lpump[p].conn

\* C29: between the camera stop performed by stop_stream and the next
\* receive_offer the virtual camera is never started.
C29_NoCameraStartAfterStop ==
    sscam => ~cam_running

\* C30: a callback that raises is contained.  When on_stream_start raises
\* the stream is marked active and the video pump started; when
\* on_stream_stop raises the stream is marked inactive and the cleanup goes
\* on to stop preview and camera, which are stopped when the pump has ended;
\* when send_answer_callback raises the session stays in place and every
\* candidate passed later is applied to it.
C30_CallbackExceptionsContained ==
    /\ [][\A s \in Sessions :
             s \in craised'.start \ craised.start => has_stream' /\ vpc'[s] = "recv"]_vars
    /\ [][\A s \in Sessions :
             <<"video", s>> \in craised'.stop \ craised.stop =>
                 ~has_stream' /\ vpc'[s] = "cl_camchk"]_vars
    /\ [][\A s \in Sessions :
             <<"video", s>> \in craised.stop /\ vpc[s] # "done" /\ vpc'[s] = "done" =>
                 ~cam_started' /\ ~cam_running' /\ pv_thread' = 0]_vars
    /\ [][\A h \in Sessions :
             h \in craised'.answer \ craised.answer =>
                 pc' = h /\ pc' = pc /\ pcst' = pcst /\ pcst[h] = "open"]_vars
    /\ [](\A h \in craised.answer : \A c \in (craised.mark + 1)..ncand :
             \/ InFlight(c)
             \/ \E i \in DOMAIN applied : applied[i].c = c /\ applied[i].p = h)

\* Each of the three callbacks has raised: the stream was started and
\* stopped with the camera running, and a candidate passed after the answer
\* callback raised has been applied.
C30_Witness ==
    /\ craised.start = {1} /\ craised.stop = {<<"video", 1>>} /\ craised.answer = {1}
    /\ vgot[1] /\ vpc[1] = "done"
    /\ craised.mark < ncand
    /\ \E i \in DOMAIN applied : applied[i].c = ncand /\ applied[i].p = 1

\* C31: at most one pacer thread of the camera is inside the emitting loop
\* (L48-L62, past the running test of L47): a thread that stop gave up
\* joining does not run alongside the thread of a later start.
C31_OnePacerEmitting ==
    \A t, u \in Pacers :
        pacers[t].at \in {"get", "emit"} /\ pacers[u].at \in {"get", "emit"} => t = u

\* C32: while the camera is stopped, no stop being at work (L28-L33) and no
\* start under way (L19-L23), the hand-off queue is empty; and the frame a
\* pacer thread emits was not submitted before the start that created the
\* thread (the t-th thread is started by the t-th frame at the earliest).
C32_QueueEmptyAfterStop ==
    /\ ( /\ ~vc.running
         /\ \A c \in Callers : callers[c].at \notin {"L30", "L32", "join", "L33"}
         /\ callers["loop"].at \notin {"L19", "L20", "L23"} ) => vc.q = <<>>
    /\ \A t \in Pacers : pacers[t].at = "emit" => pacers[t].frame >= t

\* C33: while the video pump of the session in place, which replaced an
\* earlier session that had been negotiated and had a video track, is
\* receiving frames, the stream is active; and once the
\* pump has handled a frame, the camera is started and running.
C33_NewSessionKeptUp ==
    \A s \in Sessions :
        ( /\ pc = s /\ pcst[s] = "open"
          /\ \E o \in Sessions : /\ o < s /\ hpc[o] = "done"
                                  /\ pcst[o] = "closed" /\ vpc[o] # "none" ) =>
            /\ vpc[s] \in {"recv", "camchk", "camstart", "camflag"} => has_stream
            /\ vpc[s] = "recv" /\ vgot[s] => cam_started /\ cam_running

\* C34: within one connect attempt CONNECTING is reported before any
\* CONNECTED, and never with the socket open, when _on_ws_status would stop
\* the stream of the open connection; and at most one connection thread is
\* alive.
C34_ConnectingBeforeConnected ==
    /\ \A j \in DOMAIN wsc.log :
          wsc.log[j].s = "CONNECTED" =>
              \E i \in 1..(j - 1) : wsc.log[i].s = "CONNECTING" /\ wsc.log[i].a = wsc.log[j].a
    /\ \A i \in DOMAIN wsc.log : wsc.log[i].s = "CONNECTING" => ~wsc.log[i].open
    /\ \A t, u \in Connects :
          wsc.th[t] \in {"run", "open", "closing"} /\ wsc.th[u] \in {"run", "open", "closing"}
              => t = u

====
